---- MODULE Spec2Model ----
(***************************************************************************)
(* Workflows of the temporal-durable-execution-mastery examples, modelled  *)
(* as state machines of one workflow execution each.                       *)
(*                                                                         *)
(* A workflow execution is a single cooperative task: code between two     *)
(* awaits runs without interruption, so every action below is one such     *)
(* synchronous stretch (one workflow activation).  Money is counted in     *)
(* cents, a SKU is the sequence of its dash-separated tokens.              *)
(***************************************************************************)
EXTENDS Integers, Sequences, FiniteSets, TLC

VARIABLES
    wf,         \* the workflow type this execution runs
    wfstatus,   \* execution status: "Running", "Completed", "Failed"
    pc,         \* where the main coroutine (run) is suspended
    result,     \* what run returned (<<>> while running)
    log,        \* the execution's event log
    items,      \* self.items   (ShoppingCartWorkflow, OrderWorkflow)
    total,      \* self.total
    lock,       \* self.lock: 0 when free, else the update holding it
    waiters,    \* updates queued on self.lock, first come first served
    upd,        \* the update requests made so far, in order of arrival
    status,     \* OrderWorkflow.status
    payment_transaction_id,   \* OrderWorkflow.payment_transaction_id
    shipping_info,            \* OrderWorkflow.shipping_info
    request,    \* the argument the workflow was started with
    act,        \* the activity invocation the main coroutine awaits
    compensations,  \* TripBookingSaga.run: the compensation stack
    todo,       \* TripBookingSaga.run: the iterator over reversed(compensations)
    bookings,   \* the bookings that exist in the car, hotel and flight systems
    code,       \* the version of the workflow code the worker runs
    called,     \* the patch ids the running code has passed to workflow.patched
    replay,     \* what the last replay of the log produced
    now,        \* the wall clock of the worker's host
    self,       \* the fields of the workflow instance (ApprovalWorkflow,
                \* DataProcessingWorkflow of the query example)
    answer      \* the answer to the last query or refused request, on its way to the caller

vars == <<wf, wfstatus, pc, result, log, items, total, lock, waiters, upd,
          status, payment_transaction_id, shipping_info,
          request, act, compensations, todo, bookings, code, called, replay, now, self,
          answer>>

updVars == <<items, total, lock, waiters, upd>>
orderVars == <<status, payment_transaction_id, shipping_info>>
sagaVars == <<compensations, todo, bookings>>
replayVars == <<code, called, replay, now, self>>

\* what the cart and order workflows do not use
outsideUpdates == <<request, act, sagaVars, replayVars, answer>>
\* what the workflows that only call activities do not use
outsideActivities == <<updVars, orderVars, replayVars, answer>>

(***************************************************************************)
(* Bounds of the model                                                     *)
(***************************************************************************)
MaxCartUpdates == 3     \* update requests per ShoppingCartWorkflow execution
MaxOrderUpdates == 2    \* update requests per OrderWorkflow execution
MaxRunUpdates == 1      \* updates sent to an order whose run is followed to its end
MaxSignals == 2         \* signals per execution
MaxUnlimitedAttempts == 3   \* attempts modelled of an activity retried without limit
MaxClock == 2           \* ticks of the wall clock during one execution
MaxTotalItems == 2      \* total_items given to DataProcessingWorkflow.run

(***************************************************************************)
(* Program constants                                                       *)
(***************************************************************************)
MaxQuantity == 99       \* validate_add_item: "Maximum quantity per item is 99"
CartMaxItems == 50      \* validate_add_item: "Cart is full (maximum 50 items)"
OrderMaxItems == 20     \* validate_add_item: "Maximum 20 items per order"

None == "None"

(***************************************************************************)
(* Event log                                                               *)
(***************************************************************************)
Event(type, name, id, val) == [type |-> type, name |-> name, id |-> id, val |-> val]

WorkflowStarted == Event("WorkflowStarted", "run", 0, "")
WorkflowCompleted(val) == Event("WorkflowCompleted", "run", 0, val)
UpdateAccepted(name, u) == Event("UpdateAccepted", name, u, "")
UpdateCompleted(name, u, val) == Event("UpdateCompleted", name, u, val)
ActivityScheduled(name, u) == Event("ActivityScheduled", name, u, "")
ActivityCompleted(name, u, val) == Event("ActivityCompleted", name, u, val)
SignalReceived(name, val) == Event("SignalReceived", name, 0, val)
TimerStarted(name) == Event("TimerStarted", name, 0, "")
TimerFired(name) == Event("TimerFired", name, 0, "")

PatchMarker(id) == Event("PatchMarker", id, 0, "")

CountEvents(type) == Cardinality({i \in 1..Len(log) : log[i].type = type})

(***************************************************************************)
(* Activity invocation with a retry policy                                 *)
(* Durations are in microseconds, the resolution of timedelta.             *)
(***************************************************************************)
Seconds(n) == n * 1000000
Milliseconds(n) == n * 1000

Min(a, b) == IF a <= b THEN a ELSE b

RECURSIVE Pow(_, _)
Pow(b, e) == IF e = 0 THEN 1 ELSE b * Pow(b, e - 1)

\* RetryPolicy(): 1 s, coefficient 2.0, maximum interval 100 times the initial
\* one, unlimited attempts
RetryPolicy(initial_interval, backoff_coefficient, maximum_interval, maximum_attempts, types) ==
    [initial_interval |-> initial_interval,
     backoff_coefficient |-> backoff_coefficient,
     maximum_interval |-> maximum_interval,
     maximum_attempts |-> maximum_attempts,
     non_retryable_error_types |-> types]

DefaultRetryPolicy == RetryPolicy(Seconds(1), <<2, 1>>, Seconds(100), 0, {})

\* the delay before attempt n + 1:
\* min(initial_interval * backoff_coefficient^(n-1), maximum_interval)
DelayAfter(policy, n) ==
    Min((policy.initial_interval * Pow(policy.backoff_coefficient[1], n - 1))
            \div Pow(policy.backoff_coefficient[2], n - 1),
        policy.maximum_interval)

Error(type, non_retryable, attempt) ==
    [type |-> type, non_retryable |-> non_retryable, attempt |-> attempt]
NoError == Error("", FALSE, 0)

\* a retry decision that does not look at the kind of the error
ShouldRetry_any_kind(policy, n, error) ==
    /\ ~error.non_retryable
    /\ (policy.maximum_attempts = 0 \/ n < policy.maximum_attempts)

\* whether attempt n that failed with `error` is followed by another attempt
ShouldRetry(policy, n, error) ==
    /\ ~error.non_retryable
    /\ error.type \notin policy.non_retryable_error_types
    /\ (policy.maximum_attempts = 0 \/ n < policy.maximum_attempts)

Invocation(name, site, arg, policy) ==
    [name |-> name, site |-> site, arg |-> arg, policy |-> policy,
     attempt |-> 1, delays |-> <<>>, state |-> "running",
     value |-> <<>>, cause |-> NoError]

NoAct == [Invocation("", 0, <<>>, DefaultRetryPolicy) EXCEPT !.attempt = 0, !.state = "idle"]

Ok(value) == [ok |-> TRUE, value |-> value, error |-> NoError]
Raise(error) == [ok |-> FALSE, value |-> <<>>, error |-> error]

\* the outcome of a replay: the code replayed, whether it matched the log, the
\* patched() calls and commands it made, where it stopped and with what state
Replayed(version, ok, gates, commands, at, loc, upto, ids) ==
    [code |-> version, ok |-> ok, gates |-> gates, commands |-> commands,
     at |-> at, loc |-> loc, upto |-> upto, called |-> ids]
NoReplay == Replayed("", TRUE, <<>>, <<>>, "", <<>>, 0, {})

\* handle.query(name): the value a query handler returned, or the rejection
Answer(query, value) == [query |-> query, rejected |-> FALSE, value |-> value]
QueryRejected(query) == [query |-> query, rejected |-> TRUE, value |-> <<>>]
NoAnswer == Answer("", <<>>)

\* an execution that is neither replayed nor restarted
NotReplayed ==
    /\ code = "" /\ called = {} /\ replay = NoReplay /\ now = 0 /\ self = <<>>
    /\ answer = NoAnswer

ActivityAttempted(name, site, n, delay, val) ==
    [type |-> "ActivityAttempt", name |-> name, id |-> site, val |-> val,
     attempt |-> n, delay |-> delay]
ActivityFailed(name, site, cause) ==
    [type |-> "ActivityFailed", name |-> name, id |-> site, val |-> cause.type,
     cause |-> cause]

(***************************************************************************)
(* Cart and order items                                                    *)
(***************************************************************************)
Item(sku, quantity, price) == [sku |-> sku, quantity |-> quantity, price |-> price]

\* run_update_example: the items the demo sends, and one item for each
\* remaining branch of the validator
CartItems ==
    { Item(<<"LAPTOP", "001">>, 1, 129999),
      Item(<<"MOUSE", "001">>, 2, 2999),
      Item(<<"INVALID", "001">>, 1, -1000),
      Item(<<"OUT-OF-STOCK", "001">>, 1, 9999),
      Item(<<>>, 1, 500),
      Item(<<"KEYBOARD", "001">>, 0, 500),
      Item(<<"CABLE", "001">>, 100, 500) }

\* run_combined_example: the items the demo sends, and a rejected one
OrderItems ==
    { Item(<<"LAPTOP", "001">>, 1, 129999),
      Item(<<"MOUSE", "001">>, 2, 2999),
      Item(<<"KEYBOARD", "001">>, 0, 500) }

\* items already in the cart or order when the model starts watching it
Filler(n) == [i \in 1..n |-> Item(<<"FILL", ToString(i)>>, 1, 100)]

RECURSIVE SumItems(_)
SumItems(s) ==
    IF s = <<>> THEN 0
    ELSE Head(s).price * Head(s).quantity + SumItems(Tail(s))

HasSku(s, sku) == \E i \in 1..Len(s) : s[i].sku = sku

\* str(Decimal): the digits before and after the decimal point
DecimalStr(cents) == <<cents \div 100, cents % 100>>

\* check_inventory activity: "OUT-OF-STOCK" not in item.sku
check_inventory(item) == ~(\E i \in 1..Len(item.sku) : item.sku[i] = "OUT-OF-STOCK")

\* combined_example check_inventory activity: return True
Order_check_inventory(item) == TRUE

\* charge_payment activity: f"txn_{payment.payment_method[:4]}_123"
charge_payment(payment) == <<"txn", payment.payment_method, "123">>

\* an add_item that forgets the total
AddToTotal_stale(tot, item) == tot
\* self.total += item.price * item.quantity
AddToTotal(tot, item) == tot + item.price * item.quantity

\* self.total -= item_total
\* a removal that takes one unit price off the total, whatever the quantity
SubFromTotal_unit(tot, item) == tot - item.price
SubFromTotal(tot, item) == tot - item.price * item.quantity

(***************************************************************************)
(* Queries                                                                 *)
(***************************************************************************)
get_total == DecimalStr(total)
get_item_count == Len(items)
get_status == status
get_progress ==
    [status |-> status,
     items_count |-> Len(items),
     total_amount |-> DecimalStr(total),
     payment_status |-> IF payment_transaction_id # <<>> THEN "paid" ELSE "pending",
     shipping_status |-> IF shipping_info # <<>> THEN "shipped" ELSE "not shipped"]

(***************************************************************************)
(* Update requests                                                         *)
(*   pc: "rejected"  the validator raised                                  *)
(*       "waitlock"  accepted, the handler waits for self.lock             *)
(*       "activity"  the handler holds self.lock and awaits its activity   *)
(*       "completed" the handler returned                                  *)
(*       "failed"    the handler raised                                    *)
(***************************************************************************)
Update(kind, arg, p, out) == [kind |-> kind, arg |-> arg, pc |-> p, out |-> out]

ActivityOf(u) == IF u.kind = "process_payment" THEN "charge_payment" ELSE "check_inventory"

\* The handler `u` leaves `async with self.lock`: the lock passes to the first
\* waiter, which runs up to its first await in the same activation.  A waiting
\* process_payment whose amount is not the total raises at once and passes the
\* lock on.
RECURSIVE Release(_, _, _)
Release(q, ups, tot) ==
    IF q = <<>>
    THEN [lock |-> 0, waiters |-> <<>>, upd |-> ups, events |-> <<>>]
    ELSE LET u == Head(q) IN
         IF ups[u].kind = "process_payment" /\ ups[u].arg.amount # tot
         THEN LET r == Release(Tail(q), [ups EXCEPT ![u].pc = "failed",
                                                    ![u].out = <<"amount != total">>], tot)
              IN  [r EXCEPT !.events = <<UpdateCompleted(ups[u].kind, u, "failed")>> \o @]
         ELSE [lock |-> u, waiters |-> Tail(q),
               upd |-> [ups EXCEPT ![u].pc = "activity"],
               events |-> <<ActivityScheduled(ActivityOf(ups[u]), u)>>]

(***************************************************************************)
(* ShoppingCartWorkflow                                                    *)
(***************************************************************************)
\* a validator without the duplicate check
Cart_validate_add_item_nodup(item) ==
    IF Len(item.sku) = 0 THEN "Item SKU is required"
    ELSE IF item.quantity <= 0 THEN "Quantity must be positive"
    ELSE IF item.quantity > MaxQuantity THEN "Maximum quantity per item is 99"
    ELSE IF item.price <= 0 THEN "Price must be positive"
    ELSE IF Len(items) >= CartMaxItems THEN "Cart is full"
    ELSE "ok"

Cart_validate_add_item(item) ==
    IF Len(item.sku) = 0 THEN "Item SKU is required"
    ELSE IF item.quantity <= 0 THEN "Quantity must be positive"
    ELSE IF item.quantity > MaxQuantity THEN "Maximum quantity per item is 99"
    ELSE IF item.price <= 0 THEN "Price must be positive"
    ELSE IF Len(items) >= CartMaxItems THEN "Cart is full"
    ELSE IF HasSku(items, item.sku) THEN "already in cart"
    ELSE "ok"

\* An accepted handler starts: it takes the lock and schedules its activity,
\* or queues on the lock.
StartLocked(name, arg) ==
    LET u == Len(upd) + 1 IN
    IF lock = 0
    THEN /\ lock' = u
         /\ waiters' = waiters
         /\ upd' = Append(upd, Update(name, arg, "activity", <<>>))
         /\ log' = log \o <<UpdateAccepted(name, u),
                            ActivityScheduled(ActivityOf([kind |-> name]), u)>>
    ELSE /\ lock' = lock
         /\ waiters' = Append(waiters, u)
         /\ upd' = Append(upd, Update(name, arg, "waitlock", <<>>))
         /\ log' = log \o <<UpdateAccepted(name, u)>>

\* a rejection that is recorded as an accepted update
Rejected_accepted(name, arg, reason) ==
    /\ upd' = Append(upd, Update(name, arg, "rejected", <<reason>>))
    /\ log' = Append(log, UpdateAccepted(name, Len(upd) + 1))
    /\ UNCHANGED <<items, total, lock, waiters>>
\* the validator raised: the update is rejected
Rejected(name, arg, reason) ==
    /\ upd' = Append(upd, Update(name, arg, "rejected", <<reason>>))
    /\ UNCHANGED <<log, items, total, lock, waiters>>

\* a validator that appends the item before it checks it
Cart_add_item_dirty(item) ==
    /\ wf = "cart" /\ wfstatus = "Running"
    /\ Len(upd) < MaxCartUpdates
    /\ LET reason == Cart_validate_add_item(item) IN
       IF reason # "ok"
       THEN /\ upd' = Append(upd, Update("add_item", item, "rejected", <<reason>>))
            /\ items' = Append(items, item)
            /\ UNCHANGED <<log, total, lock, waiters>>
       ELSE StartLocked("add_item", item) /\ UNCHANGED <<items, total>>
    /\ UNCHANGED <<wf, wfstatus, pc, result, orderVars, outsideUpdates>>

Cart_add_item(item) ==
    /\ wf = "cart" /\ wfstatus = "Running"
    /\ Len(upd) < MaxCartUpdates
    /\ LET reason == Cart_validate_add_item(item) IN
       IF reason # "ok"
       THEN Rejected("add_item", item, reason)
       ELSE StartLocked("add_item", item) /\ UNCHANGED <<items, total>>
    /\ UNCHANGED <<wf, wfstatus, pc, result, orderVars, outsideUpdates>>

\* add_item resumes from check_inventory, holding the lock
Cart_add_item_resume(u) ==
    /\ wf = "cart" /\ wfstatus = "Running"
    /\ u <= Len(upd)
    /\ upd[u].kind = "add_item" /\ upd[u].pc = "activity"
    /\ LET item == upd[u].arg
           available == check_inventory(item)
           newItems == IF available THEN Append(items, item) ELSE items
           newTotal == IF available THEN AddToTotal(total, item) ELSE total
           done == IF available
                   THEN [upd EXCEPT ![u].pc = "completed",
                                    ![u].out = <<Len(newItems), DecimalStr(newTotal)>>]
                   ELSE [upd EXCEPT ![u].pc = "failed", ![u].out = <<"out of stock">>]
           r == Release(waiters, done, newTotal)
       IN  /\ items' = newItems
           /\ total' = newTotal
           /\ lock' = r.lock
           /\ waiters' = r.waiters
           /\ upd' = r.upd
           /\ log' = log \o <<ActivityCompleted("check_inventory", u,
                                                IF available THEN "true" ELSE "false"),
                              UpdateCompleted("add_item", u,
                                              IF available THEN "ok" ELSE "failed")>>
                         \o r.events
    /\ UNCHANGED <<wf, wfstatus, pc, result, orderVars, outsideUpdates>>

\* remove_item is a plain def: it has no validator and takes no lock
Cart_remove_item(sku) ==
    /\ wf = "cart" /\ wfstatus = "Running"
    /\ Len(upd) < MaxCartUpdates
    /\ LET u == Len(upd) + 1
           found == {i \in 1..Len(items) : items[i].sku = sku}
       IN  IF found = {}
           THEN /\ upd' = Append(upd, Update("remove_item", sku, "failed", <<"not found">>))
                /\ log' = log \o <<UpdateAccepted("remove_item", u),
                                   UpdateCompleted("remove_item", u, "failed")>>
                /\ UNCHANGED <<items, total>>
           ELSE LET i == CHOOSE j \in found : \A k \in found : j <= k
                    newItems == SubSeq(items, 1, i - 1) \o SubSeq(items, i + 1, Len(items))
                    newTotal == SubFromTotal(total, items[i])
                IN  /\ items' = newItems
                    /\ total' = newTotal
                    /\ upd' = Append(upd, Update("remove_item", sku, "completed",
                                                 <<Len(newItems), DecimalStr(newTotal)>>))
                    /\ log' = log \o <<UpdateAccepted("remove_item", u),
                                       UpdateCompleted("remove_item", u, "ok")>>
    /\ UNCHANGED <<wf, wfstatus, pc, result, lock, waiters, orderVars, outsideUpdates>>

\* run: the 24 hour sleep ends and the cart checks out or expires
Cart_run ==
    /\ wf = "cart" /\ wfstatus = "Running" /\ pc = "sleep"
    /\ pc' = "done"
    /\ wfstatus' = "Completed"
    /\ result' = IF Len(items) > 0
                 THEN <<"Cart checked out", Len(items), DecimalStr(total)>>
                 ELSE <<"Cart expired - no items added">>
    /\ log' = log \o <<TimerFired("sleep"), WorkflowCompleted("cart")>>
    /\ UNCHANGED <<wf, updVars, orderVars, outsideUpdates>>

CartSkus == {i.sku : i \in CartItems} \ {<<>>}

InitCart ==
    /\ wf = "cart" /\ wfstatus = "Running" /\ pc = "sleep" /\ result = <<>>
    /\ log = <<WorkflowStarted>>
    /\ \E n \in {0, CartMaxItems - 1} : items = Filler(n) /\ total = SumItems(Filler(n))
    /\ lock = 0 /\ waiters = <<>> /\ upd = <<>>
    /\ status = None /\ payment_transaction_id = <<>> /\ shipping_info = <<>>
    /\ NotReplayed
    /\ request = "customer-123" /\ act = NoAct /\ compensations = <<>> /\ todo = <<>> /\ bookings = {}

NextCart ==
    \/ \E item \in CartItems : Cart_add_item(item)
    \/ \E u \in 1..MaxCartUpdates : Cart_add_item_resume(u)
    \/ \E sku \in {<<"LAPTOP", "001">>, <<"MOUSE", "001">>} : Cart_remove_item(sku)
    \/ Cart_run

SpecCart == InitCart /\ [][NextCart]_vars

\* check_inventory returns to every handler that awaits it while the
\* execution is running
SpecCartFair ==
    SpecCart /\ \A u \in 1..MaxCartUpdates : WF_vars(Cart_add_item_resume(u))

(***************************************************************************)
(* OrderWorkflow                                                           *)
(***************************************************************************)
PaymentInfo(payment_method, amount) == [payment_method |-> payment_method, amount |-> amount]

Order_validate_add_item(item) ==
    IF status # "PENDING" THEN "Cannot add items in status"
    ELSE IF item.quantity <= 0 THEN "Quantity must be positive"
    ELSE IF Len(items) >= OrderMaxItems THEN "Maximum 20 items per order"
    ELSE "ok"

Order_validate_payment(payment) ==
    IF status # "PENDING" THEN "Cannot process payment in status"
    ELSE IF Len(items) = 0 THEN "Cannot pay for empty order"
    ELSE "ok"

\* run resumes from a wait_condition whose predicate has become true
\* a wait_condition that never sees its condition become true
RunAfter_stay(p, st) == p

RunAfter(p, st) ==
    IF p = "wait_payment" /\ st = "PAID" THEN "wait_shipment"
    ELSE IF p = "wait_shipment" /\ st = "SHIPPED" THEN "delivery"
    ELSE p

Order_add_item(item) ==
    /\ wf = "order" /\ wfstatus = "Running"
    /\ Len(upd) < MaxOrderUpdates
    /\ LET reason == Order_validate_add_item(item) IN
       IF reason # "ok"
       THEN Rejected("add_item", item, reason)
       ELSE StartLocked("add_item", item) /\ UNCHANGED <<items, total>>
    /\ UNCHANGED <<wf, wfstatus, pc, result, orderVars, outsideUpdates>>

Order_add_item_resume(u) ==
    /\ wf = "order" /\ wfstatus = "Running"
    /\ u <= Len(upd)
    /\ upd[u].kind = "add_item" /\ upd[u].pc = "activity"
    /\ LET item == upd[u].arg
           available == Order_check_inventory(item)
           newItems == IF available THEN Append(items, item) ELSE items
           newTotal == IF available THEN AddToTotal(total, item) ELSE total
           done == IF available
                   THEN [upd EXCEPT ![u].pc = "completed",
                                    ![u].out = <<Len(newItems), DecimalStr(newTotal)>>]
                   ELSE [upd EXCEPT ![u].pc = "failed", ![u].out = <<"out of stock">>]
           r == Release(waiters, done, newTotal)
       IN  /\ items' = newItems
           /\ total' = newTotal
           /\ lock' = r.lock
           /\ waiters' = r.waiters
           /\ upd' = r.upd
           /\ log' = log \o <<ActivityCompleted("check_inventory", u,
                                                IF available THEN "true" ELSE "false"),
                              UpdateCompleted("add_item", u,
                                              IF available THEN "ok" ELSE "failed")>>
                         \o r.events
    /\ UNCHANGED <<wf, wfstatus, pc, result, orderVars, outsideUpdates>>

\* process_payment up to its first await: with the lock free it compares the
\* amount at once, and raises or schedules charge_payment
\* a process_payment that does not compare the amount with the total
Order_process_payment_unchecked(payment) ==
    /\ wf = "order" /\ wfstatus = "Running"
    /\ Len(upd) < MaxOrderUpdates
    /\ LET reason == Order_validate_payment(payment)
       IN  IF reason # "ok"
           THEN Rejected("process_payment", payment, reason)
           ELSE StartLocked("process_payment", payment) /\ UNCHANGED <<items, total>>
    /\ UNCHANGED <<wf, wfstatus, pc, result, orderVars, outsideUpdates>>

Order_process_payment(payment) ==
    /\ wf = "order" /\ wfstatus = "Running"
    /\ Len(upd) < MaxOrderUpdates
    /\ LET reason == Order_validate_payment(payment)
           u == Len(upd) + 1
       IN  IF reason # "ok"
           THEN Rejected("process_payment", payment, reason)
           ELSE IF lock = 0 /\ payment.amount # total
           THEN /\ upd' = Append(upd, Update("process_payment", payment, "failed",
                                             <<"amount != total">>))
                /\ log' = log \o <<UpdateAccepted("process_payment", u),
                                   UpdateCompleted("process_payment", u, "failed")>>
                /\ UNCHANGED <<items, total, lock, waiters>>
           ELSE StartLocked("process_payment", payment) /\ UNCHANGED <<items, total>>
    /\ UNCHANGED <<wf, wfstatus, pc, result, orderVars, outsideUpdates>>

\* process_payment resumes from charge_payment, holding the lock
Order_process_payment_resume(u) ==
    /\ wf = "order" /\ wfstatus = "Running"
    /\ u <= Len(upd)
    /\ upd[u].kind = "process_payment" /\ upd[u].pc = "activity"
    /\ LET transaction_id == charge_payment(upd[u].arg)
           done == [upd EXCEPT ![u].pc = "completed", ![u].out = <<transaction_id>>]
           r == Release(waiters, done, total)
       IN  /\ payment_transaction_id' = transaction_id
           /\ status' = "PAID"
           /\ lock' = r.lock
           /\ waiters' = r.waiters
           /\ upd' = r.upd
           /\ log' = log \o <<ActivityCompleted("charge_payment", u, "txn"),
                              UpdateCompleted("process_payment", u, "ok")>>
                         \o r.events
           /\ pc' = RunAfter(pc, "PAID")
    /\ UNCHANGED <<wf, wfstatus, result, items, total, shipping_info, outsideUpdates>>

\* a mark_shipped handler that ships whatever the status is
Order_mark_shipped_unguarded(shipping) ==
    /\ wf = "order" /\ wfstatus = "Running"
    /\ CountEvents("SignalReceived") < MaxSignals
    /\ log' = Append(log, SignalReceived("mark_shipped", shipping))
    /\ shipping_info' = <<shipping>>
    /\ status' = "SHIPPED"
    /\ pc' = RunAfter(pc, "SHIPPED")
    /\ UNCHANGED <<wf, wfstatus, result, updVars, payment_transaction_id, outsideUpdates>>

Order_mark_shipped(shipping) ==
    /\ wf = "order" /\ wfstatus = "Running"
    /\ CountEvents("SignalReceived") < MaxSignals
    /\ log' = Append(log, SignalReceived("mark_shipped", shipping))
    /\ IF status # "PAID"
       THEN UNCHANGED <<status, shipping_info, pc>>
       ELSE /\ shipping_info' = <<shipping>>
            /\ status' = "SHIPPED"
            /\ pc' = RunAfter(pc, "SHIPPED")
    /\ UNCHANGED <<wf, wfstatus, result, updVars, payment_transaction_id, outsideUpdates>>

\* a cancel_order handler that also runs on a closed execution
Order_cancel_order_closed(reason) ==
    /\ wf = "order"
    /\ CountEvents("SignalReceived") < MaxSignals
    /\ log' = Append(log, SignalReceived("cancel_order", reason))
    /\ IF status \in {"SHIPPED", "DELIVERED"}
       THEN UNCHANGED status
       ELSE status' = "CANCELLED"
    /\ UNCHANGED <<wf, wfstatus, pc, result, updVars, payment_transaction_id, shipping_info, outsideUpdates>>

Order_cancel_order(reason) ==
    /\ wf = "order" /\ wfstatus = "Running"
    /\ CountEvents("SignalReceived") < MaxSignals
    /\ log' = Append(log, SignalReceived("cancel_order", reason))
    /\ IF status \in {"SHIPPED", "DELIVERED"}
       THEN UNCHANGED status
       ELSE status' = "CANCELLED"
    /\ UNCHANGED <<wf, wfstatus, pc, result, updVars, payment_transaction_id, shipping_info, outsideUpdates>>

\* a payment timeout that leaves no TimerFired event in the log
Order_payment_timeout_unlogged ==
    /\ wf = "order" /\ wfstatus = "Running" /\ pc = "wait_payment"
    /\ status' = "CANCELLED"
    /\ pc' = "done"
    /\ wfstatus' = "Completed"
    /\ result' = <<"cancelled - payment timeout">>
    /\ log' = log \o <<WorkflowCompleted("cancelled")>>
    /\ UNCHANGED <<wf, updVars, payment_transaction_id, shipping_info, outsideUpdates>>

\* run: the 7 day wait for payment times out
Order_payment_timeout ==
    /\ wf = "order" /\ wfstatus = "Running" /\ pc = "wait_payment"
    /\ status' = "CANCELLED"
    /\ pc' = "done"
    /\ wfstatus' = "Completed"
    /\ result' = <<"cancelled - payment timeout">>
    /\ log' = log \o <<TimerFired("wait_payment"), WorkflowCompleted("cancelled")>>
    /\ UNCHANGED <<wf, updVars, payment_transaction_id, shipping_info, outsideUpdates>>

\* run: the 30 day wait for shipment times out
Order_shipment_timeout ==
    /\ wf = "order" /\ wfstatus = "Running" /\ pc = "wait_shipment"
    /\ pc' = "done"
    /\ wfstatus' = "Completed"
    /\ result' = <<"paid but not shipped">>
    /\ log' = log \o <<TimerFired("wait_shipment"), WorkflowCompleted("not shipped")>>
    /\ UNCHANGED <<wf, updVars, orderVars, outsideUpdates>>

\* run: the 2 second delivery sleep ends
Order_delivered ==
    /\ wf = "order" /\ wfstatus = "Running" /\ pc = "delivery"
    /\ status' = "DELIVERED"
    /\ pc' = "confirm"
    /\ log' = log \o <<TimerFired("delivery"), ActivityScheduled("send_confirmation", 0)>>
    /\ UNCHANGED <<wf, wfstatus, result, updVars, payment_transaction_id, shipping_info, outsideUpdates>>

\* run resumes from send_confirmation and returns
Order_run_return ==
    /\ wf = "order" /\ wfstatus = "Running" /\ pc = "confirm"
    /\ pc' = "done"
    /\ wfstatus' = "Completed"
    /\ result' = <<"completed", DecimalStr(total)>>
    /\ log' = log \o <<ActivityCompleted("send_confirmation", 0, ""),
                       WorkflowCompleted("completed")>>
    /\ UNCHANGED <<wf, updVars, orderVars, outsideUpdates>>

\* what a client pays: the total it has just queried, or a wrong amount
PaymentAmounts == {total, 100}

InitOrder ==
    /\ wf = "order" /\ wfstatus = "Running" /\ pc = "wait_payment" /\ result = <<>>
    /\ log = <<WorkflowStarted>>
    /\ \E n \in {0, OrderMaxItems - 1} : items = Filler(n) /\ total = SumItems(Filler(n))
    /\ lock = 0 /\ waiters = <<>> /\ upd = <<>>
    /\ status = "PENDING" /\ payment_transaction_id = <<>> /\ shipping_info = <<>>
    /\ NotReplayed
    /\ request = "ORDER-001" /\ act = NoAct /\ compensations = <<>> /\ todo = <<>> /\ bookings = {}

NextOrder ==
    \/ \E item \in OrderItems : Order_add_item(item)
    \/ \E u \in 1..MaxOrderUpdates : Order_add_item_resume(u)
    \/ \E amount \in PaymentAmounts : Order_process_payment(PaymentInfo("cred", amount))
    \/ \E u \in 1..MaxOrderUpdates : Order_process_payment_resume(u)
    \/ Order_mark_shipped("UPS")
    \/ Order_cancel_order("customer request")
    \/ Order_payment_timeout
    \/ Order_shipment_timeout
    \/ Order_delivered
    \/ Order_run_return

SpecOrder == InitOrder /\ [][NextOrder]_vars

\* the timers of run fire and its activity returns: the two deadline timers,
\* the delivery timer and send_confirmation (nothing is assumed of the
\* activities the update handlers await)
NextOrderRun ==
    \/ \E item \in OrderItems : Len(upd) < MaxRunUpdates /\ Order_add_item(item)
    \/ \E u \in 1..MaxRunUpdates : Order_add_item_resume(u)
    \/ \E amount \in PaymentAmounts :
          Len(upd) < MaxRunUpdates /\ Order_process_payment(PaymentInfo("cred", amount))
    \/ \E u \in 1..MaxRunUpdates : Order_process_payment_resume(u)
    \/ Order_mark_shipped("UPS")
    \/ Order_cancel_order("customer request")
    \/ Order_payment_timeout
    \/ Order_shipment_timeout
    \/ Order_delivered
    \/ Order_run_return

SpecOrderFair ==
    /\ InitOrder /\ [][NextOrderRun]_vars
    /\ WF_vars(Order_payment_timeout) /\ WF_vars(Order_shipment_timeout)
    /\ WF_vars(Order_delivered) /\ WF_vars(Order_run_return)

(***************************************************************************)
(* Cart and order executions together: the update handlers                 *)
(***************************************************************************)
InitUpdates == InitCart \/ InitOrder
NextUpdates == NextCart \/ NextOrder
SpecUpdates == InitUpdates /\ [][NextUpdates]_vars

(***************************************************************************)
(* Properties of the update handlers                                       *)
(***************************************************************************)
\* the request made by this step, when the step is an update request
NewUpdate == upd'[Len(upd')]
IsRequest == Len(upd') = Len(upd) + 1

\* C1  Validator purity: a step in which an update request is rejected by its
\* validator appends nothing to the event log and leaves items, total and
\* status, and with them every query result, as they were.
C1_ValidatorPurity ==
    [][(IsRequest /\ NewUpdate.pc = "rejected")
         => /\ log' = log
            /\ items' = items /\ total' = total /\ status' = status
            /\ get_total' = get_total
            /\ get_item_count' = get_item_count
            /\ get_progress' = get_progress]_vars

\* C1 witness: a process_payment rejected because the order is already paid
C1_Witness ==
    /\ wf = "order" /\ status = "PAID"
    /\ \E u \in 1..Len(upd) : upd[u].kind = "process_payment" /\ upd[u].pc = "rejected"

\* C2  Update atomicity: in every state a query can observe, the total is the
\* sum of price * quantity over the items, so no query sees an item appended
\* without its amount added; and an order is never seen with a transaction id
\* but still pending, or paid without a transaction id.
C2_UpdateAtomicity ==
    /\ get_total = DecimalStr(SumItems(items))
    /\ wf = "order" =>
         /\ (payment_transaction_id # <<>> => status # "PENDING")
         /\ (status = "PAID" => payment_transaction_id # <<>>)

\* C2 witness: two add_item updates were in flight together (the second was
\* accepted before the first completed) and both have completed
C2_Witness ==
    \E i, j \in 1..Len(log) :
        /\ i < j
        /\ log[i] = UpdateAccepted("add_item", 2)
        /\ log[j] = UpdateCompleted("add_item", 1, "ok")
        /\ Len(upd) >= 2 /\ upd[2].pc = "completed"

\* the updates whose handler returns in this step
Returning == {u \in 1..Len(upd') : upd'[u].pc = "completed"
                                   /\ (u > Len(upd) \/ upd[u].pc # "completed")}

\* C8  Update mutual exclusion: every update handler that mutates items, total
\* or status does so while it holds the execution's lock.
C8_MutualExclusion ==
    [][\A u \in Returning :
          (items' # items \/ total' # total \/ status' # status) => lock = u]_vars

\* C9  Cart scenario: while SKU A is in the cart, a further add_item for A is
\* rejected by the validator, as a duplicate when the item is otherwise valid
\* and the cart is not full, and get_total and get_item_count are unchanged.
C9_DuplicateRejected ==
    [][(wf = "cart" /\ IsRequest /\ NewUpdate.kind = "add_item"
          /\ HasSku(items, NewUpdate.arg.sku))
         => /\ NewUpdate.pc = "rejected"
            /\ (Cart_validate_add_item_nodup(NewUpdate.arg) = "ok"
                  => NewUpdate.out = <<"already in cart">>)
            /\ get_total' = get_total
            /\ get_item_count' = get_item_count]_vars

\* C9 witness: add_item for a SKU completed, and a later add_item for the same
\* SKU was rejected as a duplicate
C9_Witness ==
    \E u, v \in 1..Len(upd) :
        /\ u < v
        /\ upd[u].kind = "add_item" /\ upd[u].pc = "completed"
        /\ upd[v].kind = "add_item" /\ upd[v].pc = "rejected"
        /\ upd[v].out = <<"already in cart">>
        /\ upd[v].arg.sku = upd[u].arg.sku
        /\ get_item_count > 0

\* the positions of the log that hold this event of update request u
At(type, u) == {j \in 1..Len(log) : log[j].type = type /\ log[j].id = u}

\* C16 Two-phase update ordering: every UpdateCompleted follows an
\* UpdateAccepted of the same request; the handler body (its activity, its
\* completion) runs only after the acceptance; a request is either rejected
\* or accepted, never both; and the value delivered to the caller is what the
\* handler returns from the state at its completion.
C16_TwoPhaseUpdate ==
    /\ [](\A u \in 1..Len(upd) :
            /\ Cardinality(At("UpdateAccepted", u)) <= 1
            /\ Cardinality(At("UpdateCompleted", u)) <= 1
            /\ \A j \in At("UpdateCompleted", u) \cup At("ActivityScheduled", u)
                      \cup At("ActivityCompleted", u) :
                 \E i \in At("UpdateAccepted", u) : i < j /\ log[i].name = upd[u].kind
            /\ (upd[u].pc = "rejected" <=> At("UpdateAccepted", u) = {})
            /\ (upd[u].pc \in {"completed", "failed"} <=> At("UpdateCompleted", u) # {})
            /\ (upd[u].pc = "activity" => At("ActivityScheduled", u) # {} /\ lock = u))
    /\ [][\A u \in 1..Len(upd) : upd[u].pc = "rejected" => upd'[u] = upd[u]]_vars
    /\ [][\A u \in Returning :
            /\ At("UpdateCompleted", u)' # {}
            /\ upd'[u].kind \in {"add_item", "remove_item"} =>
                 upd'[u].out = <<Len(items'), DecimalStr(total')>>
            /\ upd'[u].kind = "process_payment" =>
                 upd'[u].out = <<payment_transaction_id'>>]_vars

\* an add_item was accepted, awaited check_inventory and completed with the
\* cart as it then was, and another request was rejected
C16_Witness ==
    \E u, v \in 1..Len(upd) :
        /\ upd[u].kind = "add_item" /\ upd[u].pc = "completed"
        /\ upd[u].out = <<Len(items), DecimalStr(total)>>
        /\ upd[v].pc = "rejected"
        /\ \E i \in At("UpdateAccepted", u), j \in At("ActivityScheduled", u),
              k \in At("UpdateCompleted", u) : i < j /\ j < k

(***************************************************************************)
(* Activities of the saga, retry and chapter 2 examples                    *)
(***************************************************************************)
Contains(id, token) == \E i \in 1..Len(id) : id[i] = token

\* book_car / book_hotel / book_flight: ValueError for an id containing
\* "invalid", else the booking id
book(prefix, id, n) ==
    IF Contains(id, "invalid")
    THEN Raise(Error("ValueError", FALSE, n))
    ELSE Ok(<<prefix>> \o id)

\* flaky_operation: random.random() < fail_probability decides, so with a
\* probability strictly between 0 and 1 an attempt can go either way
flaky_operation(fail_probability, n) ==
    {Raise(Error("TransientError", FALSE, n)) : x \in {p \in {fail_probability} : p > 0}}
        \cup {Ok(<<"Success on attempt", n>>) : x \in {p \in {fail_probability} : p < 100}}

\* the same error without the non_retryable flag
non_retryable_operation_retryable(n) == Raise(Error("ValidationError", FALSE, n))
\* non_retryable_operation: ApplicationError(type="ValidationError", non_retryable=True)
non_retryable_operation(n) == Raise(Error("ValidationError", TRUE, n))

\* validate_user: bool(user.email and "@" in user.email)
validate_user(user) == user.email # <<>> /\ Contains(user.email, "@")

\* check_fraud: risk 0.1 below an amount of 1000, else 0.8; safe below 0.5
check_fraud(order) ==
    LET risk_score == IF order.amount < 1000 THEN 10 ELSE 80
        is_safe == risk_score < 50
    IN  [is_safe |-> is_safe, risk_score |-> risk_score,
         reason |-> IF is_safe THEN None ELSE "High amount transaction"]

\* the activities of the booking and data processing workflows: an attempt
\* can also be lost to the start_to_close_timeout
TimedActivities ==
    {"book_car", "book_hotel", "book_flight",
     "undo_book_car", "undo_book_hotel", "undo_book_flight",
     "process_data", "process_item"}

\* what attempt n of the activity can end with
Outcomes(name, arg, n) ==
    (CASE name = "book_car" -> {book("car_booking", arg, n)}
       [] name = "book_hotel" -> {book("hotel_booking", arg, n)}
       [] name = "book_flight" -> {book("flight_booking", arg, n)}
       [] name \in {"undo_book_car", "undo_book_hotel", "undo_book_flight"} -> {Ok(<<>>)}
       [] name = "flaky_operation" -> flaky_operation(arg, n)
       [] name = "non_retryable_operation" -> {non_retryable_operation(n)}
       [] name = "process_data" -> {Ok(<<"upper", arg>>)}
       [] name = "process_item" -> {Ok(<<"result", arg>>)}
       [] name = "send_notification" -> {Ok(<<>>)}
       [] name = "validate_user" -> {Ok(validate_user(arg))}
       [] name = "create_account" -> {Ok(<<"account", arg.user_id>>)}
       [] name = "send_welcome_email" -> {Ok(<<>>)}
       [] name = "process_payment" ->
            {Ok([success |-> TRUE, transaction_id |-> <<"txn", arg.order_id>>])}
       [] name = "check_fraud" -> {Ok(check_fraud(arg))}
       [] name = "send_confirmation" -> {Ok(<<>>)}
       [] OTHER -> {})
    \cup (IF name \in TimedActivities
          THEN {Raise(Error("TimeoutError", FALSE, n))}
          ELSE {})

\* What attempt n of the activity can leave in the booking systems.  A
\* forward step makes its booking before it returns the id, so an attempt that
\* returned has booked, one that raised for an invalid id has not, and one
\* that was lost to the timeout may have done either; the compensations
\* likewise.
Effects(name, arg, n, o) ==
    CASE name \in {"book_car", "book_hotel", "book_flight"} ->
           IF o.ok THEN {bookings \cup {o.value}}
           ELSE {bookings} \cup
                {bookings \cup {b.value} :
                    b \in {x \in Outcomes(name, arg, n) :
                              x.ok /\ o.error.type = "TimeoutError"}}
      [] name \in {"undo_book_car", "undo_book_hotel", "undo_book_flight"} ->
           IF o.ok THEN {bookings \ {arg}} ELSE {bookings, bookings \ {arg}}
      [] OTHER -> {bookings}

\* the invocation after its current attempt ended with outcome o
AfterAttempt(a, o) ==
    IF o.ok
    THEN [a EXCEPT !.state = "completed", !.value = o.value]
    ELSE IF ShouldRetry(a.policy, a.attempt, o.error)
    THEN [a EXCEPT !.attempt = @ + 1,
                   !.delays = Append(@, DelayAfter(a.policy, a.attempt))]
    ELSE [a EXCEPT !.state = "failed", !.cause = o.error]

\* Activity Invoker: one attempt of the awaited activity runs
ActivityAttempt ==
    /\ wfstatus = "Running" /\ act.state = "running"
    /\ \E o \in Outcomes(act.name, act.arg, act.attempt) :
         \* unlimited retries are cut off in the model: the last attempt succeeds
         /\ (act.policy.maximum_attempts = 0 /\ act.attempt >= MaxUnlimitedAttempts) => o.ok
         /\ LET a == AfterAttempt(act, o)
                delay == IF act.attempt = 1 THEN 0 ELSE act.delays[act.attempt - 1]
                tried == ActivityAttempted(act.name, act.site, act.attempt, delay,
                                           IF o.ok THEN "ok" ELSE o.error.type)
            IN  /\ act' = a
                /\ log' = log \o <<tried>> \o
                          (CASE a.state = "completed" ->
                                  <<ActivityCompleted(act.name, act.site, a.value)>>
                             [] a.state = "failed" ->
                                  <<ActivityFailed(act.name, act.site, a.cause)>>
                             [] OTHER -> <<>>)
         /\ bookings' \in Effects(act.name, act.arg, act.attempt, o)
    /\ UNCHANGED <<wf, wfstatus, pc, result, request, compensations, todo,
                   outsideActivities>>

\* workflow.execute_activity: schedule and await
Await(name, site, arg, policy) ==
    /\ act' = Invocation(name, site, arg, policy)
    /\ log' = Append(log, ActivityScheduled(name, site))

(***************************************************************************)
(* TripBookingSaga                                                         *)
(***************************************************************************)
BookingRequest(car_id, hotel_id, flight_id) ==
    [car_id |-> car_id, hotel_id |-> hotel_id, flight_id |-> flight_id]

\* run_saga_example: valid ids, and an invalid id for each step
BookingRequests ==
    {BookingRequest(c, h, f) :
        c \in {<<"car", "001">>, <<"invalid", "car">>},
        h \in {<<"hotel", "001">>, <<"invalid", "hotel">>},
        f \in {<<"flight", "001">>, <<"invalid", "flight">>}}

BookingResult(success) ==
    [success |-> success, car_booking |-> <<>>, hotel_booking |-> <<>>,
     flight_booking |-> <<>>, error |-> <<>>]

Policy_book_car == [DefaultRetryPolicy EXCEPT !.maximum_attempts = 3]
Policy_book_hotel == [DefaultRetryPolicy EXCEPT !.maximum_attempts = 3,
                                                !.non_retryable_error_types = {"ValueError"}]
Policy_book_flight == [DefaultRetryPolicy EXCEPT !.maximum_attempts = 3]
Policy_compensation == [DefaultRetryPolicy EXCEPT !.maximum_attempts = 5,
                                                 !.initial_interval = Seconds(2),
                                                 !.maximum_interval = Seconds(200)]

\* a loop over compensations in the order they were appended
Reversed_forward(s) == s
\* for ... in reversed(compensations)
Reversed(s) == [i \in 1..Len(s) |-> s[Len(s) + 1 - i]]

Saga_return ==
    /\ pc' = "done"
    /\ wfstatus' = "Completed"
    /\ act' = NoAct
    /\ log' = Append(log, WorkflowCompleted("saga"))

\* the except branch from its start to the first compensation's await
Saga_compensate(res, comps) ==
    /\ result' = res
    /\ IF comps = <<>>
       THEN Saga_return /\ todo' = <<>>
       ELSE /\ pc' = "compensate"
            /\ Await(Head(comps)[1], Len(comps), Head(comps)[2], Policy_compensation)
            /\ todo' = Tail(comps)
            /\ UNCHANGED wfstatus

\* a run that books the flight and returns without setting success
Saga_step_done_unflagged ==
    /\ wf = "saga" /\ wfstatus = "Running"
    /\ pc \in {"book_car", "book_hotel", "book_flight"}
    /\ act.state = "completed"
    /\ CASE pc = "book_car" ->
              /\ result' = [result EXCEPT !.car_booking = act.value]
              /\ compensations' = Append(compensations, <<"undo_book_car", act.value>>)
              /\ pc' = "book_hotel"
              /\ Await("book_hotel", 2, request.hotel_id, Policy_book_hotel)
              /\ UNCHANGED wfstatus
         [] pc = "book_hotel" ->
              /\ result' = [result EXCEPT !.hotel_booking = act.value]
              /\ compensations' = Append(compensations, <<"undo_book_hotel", act.value>>)
              /\ pc' = "book_flight"
              /\ Await("book_flight", 3, request.flight_id, Policy_book_flight)
              /\ UNCHANGED wfstatus
         [] pc = "book_flight" ->
              /\ result' = [result EXCEPT !.flight_booking = act.value]
              /\ compensations' = Append(compensations, <<"undo_book_flight", act.value>>)
              /\ Saga_return
    /\ UNCHANGED <<wf, request, todo, bookings, outsideActivities>>

\* run resumes from a forward step that succeeded
Saga_step_done ==
    /\ wf = "saga" /\ wfstatus = "Running"
    /\ pc \in {"book_car", "book_hotel", "book_flight"}
    /\ act.state = "completed"
    /\ CASE pc = "book_car" ->
              /\ result' = [result EXCEPT !.car_booking = act.value]
              /\ compensations' = Append(compensations, <<"undo_book_car", act.value>>)
              /\ pc' = "book_hotel"
              /\ Await("book_hotel", 2, request.hotel_id, Policy_book_hotel)
              /\ UNCHANGED wfstatus
         [] pc = "book_hotel" ->
              /\ result' = [result EXCEPT !.hotel_booking = act.value]
              /\ compensations' = Append(compensations, <<"undo_book_hotel", act.value>>)
              /\ pc' = "book_flight"
              /\ Await("book_flight", 3, request.flight_id, Policy_book_flight)
              /\ UNCHANGED wfstatus
         [] pc = "book_flight" ->
              /\ result' = [result EXCEPT !.flight_booking = act.value, !.success = TRUE]
              /\ compensations' = Append(compensations, <<"undo_book_flight", act.value>>)
              /\ Saga_return
    /\ UNCHANGED <<wf, request, todo, bookings, outsideActivities>>

\* a forward step raised: except Exception as e
Saga_step_failed ==
    /\ wf = "saga" /\ wfstatus = "Running"
    /\ pc \in {"book_car", "book_hotel", "book_flight"}
    /\ act.state = "failed"
    /\ Saga_compensate([result EXCEPT !.error = <<act.cause.type>>],
                       Reversed(compensations))
    /\ UNCHANGED <<wf, request, compensations, bookings, outsideActivities>>

\* a loop without the inner except: the compensation's error fails the workflow
Saga_compensation_raised ==
    /\ pc' = "done"
    /\ wfstatus' = "Failed"
    /\ act' = NoAct
    /\ log' = Append(log, Event("WorkflowFailed", "run", 0, act.cause.type))
    /\ UNCHANGED <<result, todo>>

\* the loop body after a compensation that raised: log it and go on
Saga_compensation_logged == Saga_compensate(result, todo)

\* run resumes from a compensation, successful or not
Saga_compensation_done ==
    /\ wf = "saga" /\ wfstatus = "Running"
    /\ pc = "compensate"
    /\ act.state \in {"completed", "failed"}
    /\ IF act.state = "failed"
       THEN Saga_compensation_logged
       ELSE Saga_compensate(result, todo)
    /\ UNCHANGED <<wf, request, compensations, bookings, outsideActivities>>

InitSaga ==
    /\ wf = "saga" /\ wfstatus = "Running" /\ pc = "book_car"
    /\ request \in BookingRequests
    /\ result = BookingResult(FALSE)
    /\ compensations = <<>> /\ todo = <<>> /\ bookings = {}
    /\ act = Invocation("book_car", 1, request.car_id, Policy_book_car)
    /\ log = <<WorkflowStarted, ActivityScheduled("book_car", 1)>>
    /\ items = <<>> /\ total = 0 /\ lock = 0 /\ waiters = <<>> /\ upd = <<>>
    /\ status = None /\ payment_transaction_id = <<>> /\ shipping_info = <<>>
    /\ NotReplayed

NextSaga ==
    \/ ActivityAttempt
    \/ Saga_step_done
    \/ Saga_step_failed
    \/ Saga_compensation_done

SpecSaga == InitSaga /\ [][NextSaga]_vars

(***************************************************************************)
(* RetryPolicyDemoWorkflow                                                 *)
(***************************************************************************)
\* a policy that allows five attempts
Policy_limited_retry_five == [DefaultRetryPolicy EXCEPT !.maximum_attempts = 5]
\* RetryPolicy(maximum_attempts=3)
Policy_limited_retry == [DefaultRetryPolicy EXCEPT !.maximum_attempts = 3]
\* the policy of test 3 with a coefficient of 2
Policy_custom_backoff_doubling ==
    RetryPolicy(Milliseconds(100), <<2, 1>>, Seconds(2), 5, {})
\* RetryPolicy(initial_interval=100ms, backoff_coefficient=1.5,
\*             maximum_interval=2s, maximum_attempts=5)
Policy_custom_backoff ==
    RetryPolicy(Milliseconds(100), <<3, 2>>, Seconds(2), 5, {})
Policy_non_retryable == [DefaultRetryPolicy EXCEPT !.maximum_attempts = 5]

\* results[key] = value
SetResult(key, value) ==
    result' = [k \in DOMAIN result \cup {key} |-> IF k = key THEN value ELSE result[k]]

Awaited(test) ==
    /\ wf = "retry" /\ wfstatus = "Running" /\ pc = test
    /\ act.state \in {"completed", "failed"}

\* test 1 ends, test 2 starts
Retry_default_retry ==
    /\ Awaited("default_retry")
    /\ SetResult("default_retry",
                 IF act.state = "completed" THEN <<"Success", act.value>>
                                            ELSE <<"Failed", act.cause.type>>)
    /\ pc' = "limited_retry"
    /\ Await("flaky_operation", 2, 90, Policy_limited_retry)
    /\ UNCHANGED <<wf, wfstatus, request, sagaVars, outsideActivities>>

\* a test 2 without the except branch: the ActivityError leaves run
Retry_limited_retry_uncaught ==
    /\ Awaited("limited_retry")
    /\ IF act.state = "completed"
       THEN /\ SetResult("limited_retry", <<"Success", act.value>>)
            /\ pc' = "custom_backoff"
            /\ Await("flaky_operation", 3, 50, Policy_custom_backoff)
            /\ UNCHANGED wfstatus
       ELSE /\ pc' = "done"
            /\ wfstatus' = "Failed"
            /\ act' = NoAct
            /\ log' = Append(log, Event("WorkflowFailed", "run", 0, act.cause.type))
            /\ UNCHANGED result
    /\ UNCHANGED <<wf, request, sagaVars, outsideActivities>>
\* test 2 ends, test 3 starts
Retry_limited_retry ==
    /\ Awaited("limited_retry")
    /\ SetResult("limited_retry",
                 IF act.state = "completed" THEN <<"Success", act.value>>
                                            ELSE <<"Failed after 3 attempts">>)
    /\ pc' = "custom_backoff"
    /\ Await("flaky_operation", 3, 50, Policy_custom_backoff)
    /\ UNCHANGED <<wf, wfstatus, request, sagaVars, outsideActivities>>

\* test 3 ends, test 4 starts
Retry_custom_backoff ==
    /\ Awaited("custom_backoff")
    /\ SetResult("custom_backoff",
                 IF act.state = "completed" THEN <<"Success", act.value>>
                                            ELSE <<"Failed", act.cause.type>>)
    /\ pc' = "non_retryable"
    /\ Await("non_retryable_operation", 4, <<>>, Policy_non_retryable)
    /\ UNCHANGED <<wf, wfstatus, request, sagaVars, outsideActivities>>

\* test 4 ends, run returns results
Retry_non_retryable ==
    /\ Awaited("non_retryable")
    /\ SetResult("non_retryable",
                 IF act.state = "completed" THEN <<"Success", act.value>>
                                            ELSE <<"Failed immediately (non-retryable)">>)
    /\ pc' = "done"
    /\ wfstatus' = "Completed"
    /\ act' = NoAct
    /\ log' = Append(log, WorkflowCompleted("results"))
    /\ UNCHANGED <<wf, request, sagaVars, outsideActivities>>

InitRetryDemo ==
    /\ wf = "retry" /\ wfstatus = "Running" /\ pc = "default_retry"
    /\ request = <<>>
    /\ result = <<>>
    /\ compensations = <<>> /\ todo = <<>> /\ bookings = {}
    /\ act = Invocation("flaky_operation", 1, 30, DefaultRetryPolicy)
    /\ log = <<WorkflowStarted, ActivityScheduled("flaky_operation", 1)>>
    /\ items = <<>> /\ total = 0 /\ lock = 0 /\ waiters = <<>> /\ upd = <<>>
    /\ status = None /\ payment_transaction_id = <<>> /\ shipping_info = <<>>
    /\ NotReplayed

NextRetryDemo ==
    \/ ActivityAttempt
    \/ Retry_default_retry
    \/ Retry_limited_retry
    \/ Retry_custom_backoff
    \/ Retry_non_retryable

(***************************************************************************)
(* DataProcessingWorkflow                                                  *)
(***************************************************************************)
Policy_process_data ==
    [DefaultRetryPolicy EXCEPT !.maximum_attempts = 3, !.initial_interval = Seconds(1)]

DataInputs == {"hello", "temporal"}

\* process_data returned: send the notification
DataProcessing_processed ==
    /\ wf = "dataproc" /\ wfstatus = "Running" /\ pc = "process_data"
    /\ act.state = "completed"
    /\ result' = act.value
    /\ pc' = "send_notification"
    /\ Await("send_notification", 2, <<"Processed", act.value>>, DefaultRetryPolicy)
    /\ UNCHANGED <<wf, wfstatus, request, sagaVars, outsideActivities>>

\* send_notification returned: run returns the dictionary
DataProcessing_notified ==
    /\ wf = "dataproc" /\ wfstatus = "Running" /\ pc = "send_notification"
    /\ act.state = "completed"
    /\ result' = [input |-> request, output |-> result, status |-> "completed"]
    /\ pc' = "done"
    /\ wfstatus' = "Completed"
    /\ act' = NoAct
    /\ log' = Append(log, WorkflowCompleted("completed"))
    /\ UNCHANGED <<wf, request, sagaVars, outsideActivities>>

\* an awaited activity raised ActivityError: run does not catch it
DataProcessing_failed ==
    /\ wf = "dataproc" /\ wfstatus = "Running"
    /\ act.state = "failed"
    /\ pc' = "done"
    /\ wfstatus' = "Failed"
    /\ act' = NoAct
    /\ log' = Append(log, Event("WorkflowFailed", "run", 0, act.cause.type))
    /\ UNCHANGED <<wf, result, request, sagaVars, outsideActivities>>

InitDataProcessing ==
    /\ wf = "dataproc" /\ wfstatus = "Running" /\ pc = "process_data"
    /\ request \in DataInputs
    /\ result = <<>>
    /\ compensations = <<>> /\ todo = <<>> /\ bookings = {}
    /\ act = Invocation("process_data", 1, request, Policy_process_data)
    /\ log = <<WorkflowStarted, ActivityScheduled("process_data", 1)>>
    /\ items = <<>> /\ total = 0 /\ lock = 0 /\ waiters = <<>> /\ upd = <<>>
    /\ status = None /\ payment_transaction_id = <<>> /\ shipping_info = <<>>
    /\ NotReplayed

NextDataProcessing ==
    \/ ActivityAttempt
    \/ DataProcessing_processed
    \/ DataProcessing_notified
    \/ DataProcessing_failed

InitRetry == InitRetryDemo \/ InitDataProcessing
NextRetry == NextRetryDemo \/ NextDataProcessing
SpecRetry == InitRetry /\ [][NextRetry]_vars

\* the workflows whose activities fail: the saga, the retry demo and the
\* data processing workflow
SpecActivities == (InitSaga \/ InitRetry) /\ [][NextSaga \/ NextRetry]_vars

(***************************************************************************)
(* Properties of the saga and of the retry policies                        *)
(***************************************************************************)
\* the events of one type about the named activities, in log order
Filter(type, names) == SelectSeq(log, LAMBDA e : e.type = type /\ e.name \in names)

ForwardSteps == {"book_car", "book_hotel", "book_flight"}
Undos == {"undo_book_car", "undo_book_hotel", "undo_book_flight"}
UndoOf(name) == "undo_" \o name

booked == Filter("ActivityCompleted", ForwardSteps)
undone == Filter("ActivityScheduled", Undos)
forwardFailed == Filter("ActivityFailed", ForwardSteps)
undoFailed == Filter("ActivityFailed", Undos)

\* the attempts the log records of the invocation at one call site
Attempts(name, site) ==
    SelectSeq(log, LAMBDA e : e.type = "ActivityAttempt" /\ e.name = name /\ e.id = site)

\* C3 Saga compensation order: when a forward step of TripBookingSaga fails
\* after k completed steps (k in 0..2), the compensations invoked are those of
\* exactly the k completed steps, each once, the last completed first, each
\* with the booking it undoes; nothing is compensated for the failed step, for
\* a step never started, or in a run whose steps all succeed.
C3_CompensationOrder ==
    wf = "saga" =>
      /\ Len(undone) <= Len(booked)
      /\ \A i \in 1..Len(undone) :
           undone[i].name = UndoOf(booked[Len(booked) + 1 - i].name)
      /\ (undone # <<>> => forwardFailed # <<>>)
      /\ (forwardFailed # <<>> => Len(booked) <= 2)
      /\ (forwardFailed # <<>> /\ wfstatus = "Completed" => Len(undone) = Len(booked))
      /\ (pc = "compensate" =>
            act.arg = CASE act.name = "undo_book_car" -> result.car_booking
                        [] act.name = "undo_book_hotel" -> result.hotel_booking
                        [] act.name = "undo_book_flight" -> result.flight_booking)

C3_Witness ==
    /\ wf = "saga" /\ wfstatus = "Completed"
    /\ Len(forwardFailed) = 1 /\ forwardFailed[1].name = "book_flight"
    /\ Len(undone) = 2
    /\ undone[1].name = "undo_book_hotel" /\ undone[2].name = "undo_book_car"

\* C10 Compensation failures do not block: once a compensation has failed
\* (its 5 attempts are used up), the workflow does not fail; it goes on to the
\* compensations of the steps completed earlier, in reverse order, and run
\* returns a BookingResult with success false and the error set.
C10_CompensationFailureDoesNotBlock ==
    (wf = "saga" /\ undoFailed # <<>>) =>
      /\ wfstatus # "Failed"
      /\ \A i \in 1..Len(undoFailed) :
           Len(Attempts(undoFailed[i].name, undoFailed[i].id)) = 5
      /\ (wfstatus = "Running" => pc = "compensate")
      /\ (wfstatus = "Completed" =>
            /\ Len(undone) = Len(booked)
            /\ \A i \in 1..Len(undone) :
                 undone[i].name = UndoOf(booked[Len(booked) + 1 - i].name)
            /\ DOMAIN result = DOMAIN BookingResult(FALSE)
            /\ result.success = FALSE /\ result.error # <<>>
            /\ log[Len(log)] = WorkflowCompleted("saga"))

C10_Witness ==
    /\ wf = "saga" /\ wfstatus = "Completed"
    /\ Len(undoFailed) = 1 /\ undoFailed[1].name = "undo_book_hotel"
    /\ Len(undone) = 2 /\ undone[2].name = "undo_book_car"
    /\ \E i, j \in 1..Len(log) :
         /\ i < j
         /\ log[i].type = "ActivityFailed" /\ log[i].name = "undo_book_hotel"
         /\ log[j].type = "ActivityCompleted" /\ log[j].name = "undo_book_car"

\* the invocations made with RetryPolicy(maximum_attempts=3): test 2 of the
\* retry demo and process_data of the data processing workflow
Limited ==
    \/ wf = "retry" /\ act.site = 2
    \/ wf = "dataproc" /\ act.name = "process_data"

\* C4 Retry law: an activity invoked with maximum_attempts=3 is never
\* attempted a fourth time; if every attempt fails it is attempted exactly 3
\* times, attempt 2 after initial_interval (1 s), attempt 3 after
\* initial_interval * backoff_coefficient (2 s), and the failure handed to the
\* workflow carries the cause of the third attempt.
C4_RetryLaw ==
    (act # NoAct /\ Limited) =>
      LET tried == Attempts(act.name, act.site)
          initial == act.policy.initial_interval
          coefficient == act.policy.backoff_coefficient
      IN  /\ Len(tried) <= 3
          /\ \A n \in 1..Len(tried) : tried[n].attempt = n
          /\ initial = Seconds(1) /\ coefficient = <<2, 1>>
          /\ (Len(tried) >= 2 => tried[2].delay = initial)
          /\ (Len(tried) >= 3 =>
                tried[3].delay = (initial * coefficient[1]) \div coefficient[2])
          /\ ((\A n \in 1..Len(tried) : tried[n].val # "ok") =>
                IF Len(tried) < 3
                THEN act.state = "running"
                ELSE /\ act.state = "failed"
                     /\ act.cause.attempt = 3
                     /\ act.cause.type = tried[3].val
                     /\ log[Len(log)] = ActivityFailed(act.name, act.site, act.cause))
          /\ (act.state = "failed" => Len(tried) = 3)

C4_Witness ==
    /\ wf = "retry" /\ act # NoAct /\ act.site = 2 /\ act.state = "failed"
    /\ Len(Attempts("flaky_operation", 2)) = 3
    /\ act.delays = <<Seconds(1), Seconds(2)>>

\* C5 Non-retryable short-circuit: non_retryable_operation, invoked with
\* maximum_attempts=5, is attempted exactly once; its failure carries the
\* non_retryable flag, ends the invocation at once and reaches the workflow as
\* an ActivityError, which takes the except branch.
C5_NonRetryableShortCircuit ==
    wf = "retry" =>
      LET tried == Attempts("non_retryable_operation", 4)
      IN  /\ Len(tried) <= 1
          /\ (pc = "non_retryable" =>
                /\ act.policy.maximum_attempts = 5
                /\ (act.state = "running" <=> tried = <<>>)
                /\ (tried # <<>> =>
                      /\ act.state = "failed" /\ act.attempt = 1
                      /\ act.cause.non_retryable /\ act.cause.type = "ValidationError"
                      /\ log[Len(log)] = ActivityFailed(act.name, 4, act.cause)))
          /\ (pc = "done" =>
                /\ Len(tried) = 1
                /\ result["non_retryable"] = <<"Failed immediately (non-retryable)">>)

C5_Witness ==
    /\ wf = "retry" /\ pc = "done"
    /\ Len(Attempts("non_retryable_operation", 4)) = 1
    /\ result["non_retryable"] = <<"Failed immediately (non-retryable)">>

\* the activity invocation has ended with the failure of its last attempt
Exhausted ==
    /\ act.state = "failed"
    /\ (act.cause.non_retryable \/ act.attempt = act.policy.maximum_attempts)

ResultKeys == {"default_retry", "limited_retry", "custom_backoff", "non_retryable"}

\* C17 Exhausted retries are catchable: when an activity of
\* RetryPolicyDemoWorkflow has exhausted its retry policy, run goes on in its
\* except branch and records the failure under the key of the test; the
\* execution never has status Failed, and when it has completed its result
\* holds exactly the keys default_retry, limited_retry, custom_backoff and
\* non_retryable.
C17_ExhaustedRetriesCatchable ==
    /\ [](wf = "retry" =>
            /\ wfstatus \in {"Running", "Completed"}
            /\ (act.state = "failed" => Exhausted /\ wfstatus = "Running" /\ pc \in ResultKeys)
            /\ (wfstatus = "Completed" => DOMAIN result = ResultKeys)
            /\ \A j \in 1..Len(log) : log[j].type # "WorkflowFailed")
    /\ [][(wf = "retry" /\ Exhausted) =>
            /\ wfstatus' \in {"Running", "Completed"}
            /\ pc \in DOMAIN result'
            /\ result'[pc][1] \in {"Failed", "Failed after 3 attempts",
                                   "Failed immediately (non-retryable)"}]_vars

\* run has returned after test 2 ran out of its three attempts and test 4
\* failed at once
C17_Witness ==
    /\ wf = "retry" /\ wfstatus = "Completed"
    /\ DOMAIN result = ResultKeys
    /\ result["limited_retry"] = <<"Failed after 3 attempts">>
    /\ result["non_retryable"] = <<"Failed immediately (non-retryable)">>
    /\ Len(Attempts("flaky_operation", 2)) = 3

(***************************************************************************)
(* The backoff of the activity invoker, over a range of retry policies     *)
(***************************************************************************)
BackoffPolicies ==
    {RetryPolicy(initial, coefficient, maximum, 5, {}) :
        initial \in {Milliseconds(100), Seconds(1)},
        coefficient \in {<<1, 1>>, <<3, 2>>, <<2, 1>>},
        maximum \in {Milliseconds(200), Seconds(2)}}

\* flaky_operation invoked under one of the policies
InitBackoff ==
    /\ wf = "backoff" /\ wfstatus = "Running" /\ pc = "flaky_operation"
    /\ request = <<>>
    /\ result = <<>>
    /\ compensations = <<>> /\ todo = <<>> /\ bookings = {}
    /\ \E policy \in BackoffPolicies : act = Invocation("flaky_operation", 1, 50, policy)
    /\ log = <<WorkflowStarted, ActivityScheduled("flaky_operation", 1)>>
    /\ items = <<>> /\ total = 0 /\ lock = 0 /\ waiters = <<>> /\ upd = <<>>
    /\ status = None /\ payment_transaction_id = <<>> /\ shipping_info = <<>>
    /\ NotReplayed

SpecBackoff == (InitRetryDemo \/ InitBackoff) /\ [][NextRetryDemo]_vars

\* C18 Backoff formula: the delay before attempt n + 1 of an invocation is
\* min(initial_interval * backoff_coefficient^(n-1), maximum_interval); the
\* delays do not decrease with n and none exceeds maximum_interval.  Under
\* the policy of test 3 (100 ms, 1.5, 2 s, 5 attempts) they are 100 ms,
\* 150 ms, 225 ms and 337.5 ms.
C18_BackoffFormula ==
    wf \in {"retry", "backoff"} =>
      LET p == act.policy
          num == p.backoff_coefficient[1]
          den == p.backoff_coefficient[2]
      IN  /\ act.state # "idle" => Len(act.delays) = act.attempt - 1
          /\ \A n \in 1..Len(act.delays) :
               /\ act.delays[n] =
                    (IF p.initial_interval * Pow(num, n - 1)
                          < p.maximum_interval * Pow(den, n - 1)
                     THEN (p.initial_interval * Pow(num, n - 1)) \div Pow(den, n - 1)
                     ELSE p.maximum_interval)
               /\ act.delays[n] <= p.maximum_interval
               /\ n > 1 => act.delays[n - 1] <= act.delays[n]
          /\ (wf = "retry" /\ pc = "custom_backoff") =>
               /\ p.maximum_attempts = 5
               /\ act.delays = SubSeq(<<100000, 150000, 225000, 337500>>,
                                      1, Len(act.delays))

\* the flaky_operation of test 3 has failed four times and its fifth attempt
\* is due
C18_Witness ==
    /\ wf = "retry" /\ pc = "custom_backoff"
    /\ act.attempt = 5
    /\ act.delays = <<Milliseconds(100), Milliseconds(150), Milliseconds(225), 337500>>

\* a policy whose delays reach maximum_interval
C18_Capped ==
    /\ wf = "backoff" /\ act.attempt = 5
    /\ act.delays = <<Seconds(1), Seconds(2), Seconds(2), Seconds(2)>>

(***************************************************************************)
(* Workflow code as commands: what run does from one suspension point to   *)
(* the next                                                                *)
(***************************************************************************)
Activity(name, arg, policy) == [op |-> "activity", name |-> name, arg |-> arg, policy |-> policy]
Patched(id) == [op |-> "patched", name |-> id, arg |-> <<>>, policy |-> DefaultRetryPolicy]
Return(value) == [op |-> "return", name |-> "run", arg |-> value, policy |-> DefaultRetryPolicy]

\* run with locals loc issues cmd and is resumed at `at` with its result
Step(loc, cmd, at) == [loc |-> loc, cmd |-> cmd, at |-> at]

(***************************************************************************)
(* UserSignupWorkflowV1, UserSignupWorkflowV2, UserSignupWorkflowV2Bad     *)
(***************************************************************************)
UserData(user_id, email) == [user_id |-> user_id, email |-> email]

Users ==
    {UserData("user-test-001", <<"test", "@", "example.com">>),
     UserData("user-test-002", <<"invalid-email">>),
     UserData("user-test-003", <<>>)}

SignupVersions == {"v1", "v2", "v2-bad"}

\* a version that sends the welcome email whatever patched returned
WelcomeEmailGate_always(user, loc, is_patched) ==
    Step(loc, Activity("send_welcome_email", user.email, DefaultRetryPolicy),
         "send_welcome_email")
\* if workflow.patched("send-welcome-email"): ... else: ...
WelcomeEmailGate(user, loc, is_patched) ==
    IF is_patched
    THEN Step(loc, Activity("send_welcome_email", user.email, DefaultRetryPolicy),
              "send_welcome_email")
    ELSE Step(loc, Return([success |-> TRUE, account_id |-> loc.account_id,
                           welcome_sent |-> FALSE, version |-> "v2"]), "done")

\* a V2Bad that keeps the order of V1: validate_user, then create_account
UserSignupWorkflowV2Bad_validate_first(user, at, loc, value) ==
    CASE at = "start" ->
           Step(loc, Activity("validate_user", user, DefaultRetryPolicy), "validate_user")
      [] at = "validate_user" ->
           IF ~value
           THEN Step(loc, Return([success |-> FALSE, error |-> "Invalid user data"]), "done")
           ELSE Step(loc, Activity("create_account", user, DefaultRetryPolicy),
                     "create_account")
      [] at = "create_account" ->
           Step(loc, Return([success |-> TRUE, account_id |-> value,
                             version |-> "v2-bad"]), "done")
\* UserSignupWorkflowV2Bad.run: create_account, then validate_user
UserSignupWorkflowV2Bad(user, at, loc, value) ==
    CASE at = "start" ->
           Step(loc, Activity("create_account", user, DefaultRetryPolicy), "create_account")
      [] at = "create_account" ->
           Step([loc EXCEPT !.account_id = value],
                Activity("validate_user", user, DefaultRetryPolicy), "validate_user")
      [] at = "validate_user" ->
           IF ~value
           THEN Step(loc, Return([success |-> FALSE, error |-> "Invalid user data"]), "done")
           ELSE Step(loc, Return([success |-> TRUE, account_id |-> loc.account_id,
                                  version |-> "v2-bad"]), "done")

\* run of the three versions, resumed at `at` with `value`
UserSignupWorkflow(version, user, at, loc, value) ==
    IF version = "v2-bad"
    THEN UserSignupWorkflowV2Bad(user, at, loc, value)
    ELSE CASE at = "start" ->
                Step(loc, Activity("validate_user", user, DefaultRetryPolicy),
                     "validate_user")
           [] at = "validate_user" ->
                IF ~value
                THEN Step(loc, Return([success |-> FALSE, error |-> "Invalid user data"]),
                          "done")
                ELSE Step(loc, Activity("create_account", user, DefaultRetryPolicy),
                          "create_account")
           [] at = "create_account" ->
                IF version = "v1"
                THEN Step(loc, Return([success |-> TRUE, account_id |-> value,
                                       version |-> "v1"]), "done")
                ELSE Step([loc EXCEPT !.account_id = value],
                          Patched("send-welcome-email"), "patched")
           [] at = "patched" -> WelcomeEmailGate(user, loc, value)
           [] at = "send_welcome_email" ->
                Step(loc, Return([success |-> TRUE, account_id |-> loc.account_id,
                                  welcome_sent |-> TRUE, version |-> "v2"]), "done")

(***************************************************************************)
(* OrderWorkflowVersioned, as deployed in its versions v1, v2 and v3       *)
(***************************************************************************)
Order(order_id, amount, customer_id) ==
    [order_id |-> order_id, amount |-> amount, customer_id |-> customer_id]

Orders ==
    {Order("order-001", 500, "customer-123"),
     Order("order-002", 5000, "customer-456"),
     Order("order-003", 1000, "customer-789")}

OrderVersions == {"v1", "v2", "v3"}

Policy_versioned == [DefaultRetryPolicy EXCEPT !.maximum_attempts = 3]

\* the final step: send_confirmation
Confirm(order, loc) ==
    Step(loc, Activity("send_confirmation", <<order.order_id, loc.transaction_id>>,
                       Policy_versioned), "send_confirmation")

\* a version that sends the notification whatever patched returned
NotificationGate_always(order, loc, is_patched) ==
    Step([loc EXCEPT !.version = "v3"],
         Activity("send_notification", <<order.order_id, order.amount>>, Policy_versioned),
         "send_notification")
\* if workflow.patched("add-notification-v1"): ... else: ...
NotificationGate(order, loc, is_patched) ==
    IF is_patched
    THEN Step([loc EXCEPT !.version = "v3"],
              Activity("send_notification", <<order.order_id, order.amount>>,
                       Policy_versioned), "send_notification")
    ELSE Confirm(order, loc)

\* run from the end of the fraud check section on
AfterFraudCheck(version, order, loc) ==
    IF version = "v3"
    THEN Step(loc, Patched("add-notification-v1"), "patched_notification")
    ELSE Confirm(order, loc)

\* if workflow.patched("add-fraud-check-v1"): ... else: ...
FraudCheckGate(version, order, loc, is_patched) ==
    IF is_patched
    THEN Step([loc EXCEPT !.version = "v2"],
              Activity("check_fraud", order, Policy_versioned), "check_fraud")
    ELSE AfterFraudCheck(version, order, loc)

\* a run that goes on after the fraud check whatever it reported
OrderWorkflowVersioned_unchecked(version, order, at, loc, value) ==
    CASE at = "start" ->
           Step(loc, Activity("process_payment", order, Policy_versioned), "process_payment")
      [] at = "process_payment" ->
           LET paid == [loc EXCEPT !.transaction_id = value.transaction_id]
           IN  IF version = "v1"
               THEN Confirm(order, paid)
               ELSE Step(paid, Patched("add-fraud-check-v1"), "patched_fraud")
      [] at = "patched_fraud" -> FraudCheckGate(version, order, loc, value)
      [] at = "check_fraud" ->
           AfterFraudCheck(version, order,
                           [loc EXCEPT !.fraud_checked = TRUE,
                                       !.risk_score = value.risk_score])
      [] at = "patched_notification" -> NotificationGate(order, loc, value)
      [] at = "send_notification" ->
           Confirm(order, [loc EXCEPT !.notification_sent = TRUE])
      [] at = "send_confirmation" ->
           Step(loc, Return([loc EXCEPT !.status = "COMPLETED"]), "done")

\* OrderWorkflowVersioned.run: v3 is the code of the source, v1 and v2 are
\* the versions before the patches
OrderWorkflowVersioned(version, order, at, loc, value) ==
    CASE at = "start" ->
           Step(loc, Activity("process_payment", order, Policy_versioned), "process_payment")
      [] at = "process_payment" ->
           LET paid == [loc EXCEPT !.transaction_id = value.transaction_id]
           IN  IF version = "v1"
               THEN Confirm(order, paid)
               ELSE Step(paid, Patched("add-fraud-check-v1"), "patched_fraud")
      [] at = "patched_fraud" -> FraudCheckGate(version, order, loc, value)
      [] at = "check_fraud" ->
           LET checked == [loc EXCEPT !.fraud_checked = TRUE,
                                      !.risk_score = value.risk_score]
           IN  IF ~value.is_safe
               THEN Step(checked, Return([checked EXCEPT !.status = "FRAUD_REJECTED"]),
                         "done")
               ELSE AfterFraudCheck(version, order, checked)
      [] at = "patched_notification" -> NotificationGate(order, loc, value)
      [] at = "send_notification" ->
           Confirm(order, [loc EXCEPT !.notification_sent = TRUE])
      [] at = "send_confirmation" ->
           Step(loc, Return([loc EXCEPT !.status = "COMPLETED"]), "done")

(***************************************************************************)
(* Running and replaying the versioned workflows                           *)
(***************************************************************************)
Versioned == {"signup", "versioned"}
Versions(w) == IF w = "signup" THEN SignupVersions ELSE OrderVersions
Inputs(w) == IF w = "signup" THEN Users ELSE Orders

\* the locals of run when it starts
Locals(w, input) ==
    IF w = "signup"
    THEN [account_id |-> <<>>]
    ELSE [order_id |-> input.order_id, version |-> "v1", fraud_checked |-> FALSE,
          notification_sent |-> FALSE, transaction_id |-> <<>>,
          risk_score |-> None, status |-> None]

Code(w, version, input, at, loc, value) ==
    IF w = "signup"
    THEN UserSignupWorkflow(version, input, at, loc, value)
    ELSE OrderWorkflowVersioned(version, input, at, loc, value)

\* A workflow task on new events: run goes on from `at` until it awaits an
\* activity or returns.  workflow.patched records a marker and returns true.
RECURSIVE Activation(_, _, _, _, _, _, _, _)
Activation(w, version, input, at, loc, value, events, ids) ==
    LET s == Code(w, version, input, at, loc, value)
    IN  CASE s.cmd.op = "patched" ->
               Activation(w, version, input, s.at, s.loc, TRUE,
                          Append(events, PatchMarker(s.cmd.name)), ids \cup {s.cmd.name})
          [] s.cmd.op = "activity" ->
               [at |-> s.at, loc |-> s.loc, cmd |-> s.cmd, called |-> ids,
                events |-> Append(events, ActivityScheduled(s.cmd.name, Len(events) + 1))]
          [] s.cmd.op = "return" ->
               [at |-> s.at, loc |-> s.cmd.arg, cmd |-> s.cmd, called |-> ids,
                events |-> Append(events, WorkflowCompleted("returned"))]

\* the first event from i on that is not an attempt of the awaited activity
RECURSIVE SkipAttempts(_)
SkipAttempts(i) ==
    IF i <= Len(log) /\ log[i].type = "ActivityAttempt" THEN SkipAttempts(i + 1) ELSE i

\* patched(id) in a replay that has consumed the log up to event i - 1
HasMarker(id, i) ==
    \E j \in 1..Min(i, Len(log)) : log[j].type = "PatchMarker" /\ log[j].name = id

\* Replay: run is resumed at `at` with `value`; i is the next event to consume.
\* Each command has to match the log, else the replay ends with the
\* NonDeterminismError (ok = FALSE).
RECURSIVE ReplayFrom(_, _, _, _, _, _, _, _, _)
ReplayFrom(w, version, input, at, loc, value, i, gates, commands) ==
    IF i > Len(log)
    THEN Replayed(version, TRUE, gates, commands, at, loc, Len(log), called)
    ELSE
    LET s == Code(w, version, input, at, loc, value)
        issued == Append(commands, s.cmd.name)
    IN  CASE s.cmd.op = "patched" ->
               LET b == HasMarker(s.cmd.name, i)
                   here == log[i].type = "PatchMarker" /\ log[i].name = s.cmd.name
               IN  ReplayFrom(w, version, input, s.at, s.loc, b,
                              IF here THEN i + 1 ELSE i,
                              Append(gates, [id |-> s.cmd.name, value |-> b, at |-> i]),
                              commands)
          [] s.cmd.op = "activity" ->
               IF log[i].type = "ActivityScheduled" /\ log[i].name = s.cmd.name
               THEN LET j == SkipAttempts(i + 1)
                    IN  IF j > Len(log)
                        THEN Replayed(version, TRUE, gates, issued, s.at, s.loc,
                                      Len(log), called)
                        ELSE IF log[j].type = "ActivityCompleted"
                        THEN ReplayFrom(w, version, input, s.at, s.loc, log[j].val,
                                        j + 1, gates, issued)
                        ELSE Replayed(version, FALSE, gates, issued, s.at, s.loc,
                                      Len(log), called)
               ELSE Replayed(version, FALSE, gates, issued, at, loc, Len(log), called)
          [] s.cmd.op = "return" ->
               IF log[i].type = "WorkflowCompleted"
               THEN Replayed(version, TRUE, gates, issued, s.at, s.cmd.arg, Len(log), called)
               ELSE Replayed(version, FALSE, gates, issued, at, loc, Len(log), called)

ReplayLog(w, version, input) ==
    ReplayFrom(w, version, input, "start", Locals(w, input), TRUE, 2, <<>>, <<>>)

\* a workflow task: the awaited activity has completed and run goes on
Workflow_task ==
    /\ wf \in Versioned /\ wfstatus = "Running"
    /\ act.state = "completed"
    /\ LET a == Activation(wf, code, request, pc, result, act.value, log, {})
       IN  /\ pc' = a.at
           /\ result' = a.loc
           /\ log' = a.events
           /\ called' = called \cup a.called
           /\ IF a.cmd.op = "return"
              THEN act' = NoAct /\ wfstatus' = "Completed"
              ELSE /\ act' = Invocation(a.cmd.name, Len(a.events), a.cmd.arg, a.cmd.policy)
                   /\ UNCHANGED wfstatus
    /\ UNCHANGED <<wf, request, code, replay, now, self, sagaVars, updVars, orderVars, answer>>

\* a replay that cuts the log off where it stopped
Replay_truncating(version) ==
    /\ wf \in Versioned
    /\ version \in Versions(wf)
    /\ LET r == ReplayLog(wf, version, request)
       IN  /\ replay' = r
           /\ log' = SubSeq(log, 1, Len(r.commands) + 1)
    /\ UNCHANGED <<wf, wfstatus, code, pc, result, request, act, called, now, self,
                   sagaVars, updVars, orderVars, answer>>
\* Replayer.replay_workflow, or a worker with this version of the code taking
\* over the execution: the log is replayed, and a running execution goes on
\* with the replayed state unless the replay failed
Replay(version) ==
    /\ wf \in Versioned
    /\ version \in Versions(wf)
    /\ LET r == ReplayLog(wf, version, request)
       IN  /\ replay' = r
           /\ IF wfstatus = "Running" /\ r.ok
              THEN code' = version /\ pc' = r.at /\ result' = r.loc
              ELSE UNCHANGED <<code, pc, result>>
    /\ UNCHANGED <<wf, wfstatus, log, request, act, called, now, self,
                   sagaVars, updVars, orderVars, answer>>

InitVersioning ==
    /\ wf \in Versioned /\ wfstatus = "Running"
    /\ code \in Versions(wf)
    /\ request \in Inputs(wf)
    /\ LET a == Activation(wf, code, request, "start", Locals(wf, request), TRUE,
                           <<WorkflowStarted>>, {})
       IN  /\ pc = a.at /\ result = a.loc /\ log = a.events /\ called = a.called
           /\ act = Invocation(a.cmd.name, Len(a.events), a.cmd.arg, a.cmd.policy)
    /\ replay = NoReplay /\ now = 0 /\ self = <<>> /\ answer = NoAnswer
    /\ compensations = <<>> /\ todo = <<>> /\ bookings = {}
    /\ items = <<>> /\ total = 0 /\ lock = 0 /\ waiters = <<>> /\ upd = <<>>
    /\ status = None /\ payment_transaction_id = <<>> /\ shipping_info = <<>>

NextVersioning ==
    \/ ActivityAttempt
    \/ Workflow_task
    \/ \E version \in SignupVersions \cup OrderVersions : Replay(version)

SpecVersioning == InitVersioning /\ [][NextVersioning]_vars

(***************************************************************************)
(* Properties of the patches                                               *)
(***************************************************************************)
PatchIds == {"send-welcome-email", "add-fraud-check-v1", "add-notification-v1"}

\* the activity each patch added
PatchedActivity(id) ==
    CASE id = "send-welcome-email" -> "send_welcome_email"
      [] id = "add-fraud-check-v1" -> "check_fraud"
      [] id = "add-notification-v1" -> "send_notification"

Issued(r, name) == \E k \in 1..Len(r.commands) : r.commands[k] = name

\* C6 Patch gating: every patched(id) a replay evaluates is true exactly if a
\* PatchMarker for id is in the log at or before the point the replay has
\* reached, which is exactly if the code that produced the log called
\* patched(id); when it is false the replay takes the old branch and does not
\* schedule the activity the patch added, when it is true it schedules it.
C6_PatchGating ==
    (wf \in Versioned /\ replay.upto > 0) =>
      \A k \in 1..Len(replay.gates) :
        LET g == replay.gates[k]
        IN  /\ g.id \in PatchIds
            /\ g.value <=> \E j \in 1..g.at : /\ j <= replay.upto
                                               /\ log[j].type = "PatchMarker"
                                               /\ log[j].name = g.id
            /\ g.value <=> g.id \in replay.called
            /\ g.value <=> Issued(replay, PatchedActivity(g.id))

\* a log produced by v2 (fraud check called, notification never called) and
\* replayed by v3 to its end
C6_Witness ==
    /\ wf = "versioned" /\ wfstatus = "Completed"
    /\ replay.upto = Len(log) /\ replay.code = "v3" /\ replay.ok
    /\ Len(replay.gates) = 2
    /\ replay.gates[1].id = "add-fraud-check-v1" /\ replay.gates[1].value
    /\ replay.gates[2].id = "add-notification-v1" /\ ~replay.gates[2].value
    /\ Issued(replay, "check_fraud") /\ ~Issued(replay, "send_notification")
    /\ Issued(replay, "send_confirmation")

(***************************************************************************)
(* Replay tests of the signup workflow                                     *)
(***************************************************************************)
\* the commands the log records: the activities scheduled and the return of run
LogCommands ==
    LET recorded == SelectSeq(log, LAMBDA e : e.type \in {"ActivityScheduled",
                                                          "WorkflowCompleted"})
    IN  [k \in 1..Len(recorded) |-> recorded[k].name]

HasEvent(type, name) == \E j \in 1..Len(log) : log[j].type = type /\ log[j].name = name

\* the replay in `replay` was made with this code on the log as it is now
ReplayedWith(version) == replay.upto = Len(log) /\ replay.code = version

\* C11 Replay compatibility: a completed history recorded by
\* UserSignupWorkflowV1 replays with the code of UserSignupWorkflowV2 without
\* NonDeterminismError: V2 issues the commands of the log, in their order,
\* every patched("send-welcome-email") it evaluates is false and it schedules
\* no send_welcome_email.  An execution completed successfully by V2 itself
\* took the patched branch: the marker is in its log and send_welcome_email
\* was scheduled.
C11_ReplayCompatibility ==
    /\ (wf = "signup" /\ wfstatus = "Completed" /\ code = "v1" /\ ReplayedWith("v2")) =>
          /\ replay.ok
          /\ replay.commands = LogCommands
          /\ \A k \in 1..Len(replay.gates) : ~replay.gates[k].value
          /\ Len(replay.gates) = (IF result.success THEN 1 ELSE 0)
          /\ ~Issued(replay, "send_welcome_email")
          /\ ~HasEvent("PatchMarker", "send-welcome-email")
    /\ (wf = "signup" /\ wfstatus = "Completed" /\ code = "v2" /\ result.success) =>
          /\ result.welcome_sent
          /\ "send-welcome-email" \in called
          /\ HasEvent("PatchMarker", "send-welcome-email")
          /\ HasEvent("ActivityScheduled", "send_welcome_email")

\* a signup completed by V1 for a valid user, replayed by V2 to its end
C11_Witness ==
    /\ wf = "signup" /\ wfstatus = "Completed" /\ code = "v1" /\ ReplayedWith("v2")
    /\ result.success
    /\ replay.ok
    /\ replay.commands = <<"validate_user", "create_account", "run">>
    /\ Len(replay.gates) = 1 /\ ~replay.gates[1].value

\* a replay with UserSignupWorkflowV2Bad is made in this step
ReplaysV2Bad ==
    /\ replay'.code = "v2-bad" /\ replay'.upto = Len(log)
    /\ ~ReplayedWith("v2-bad")

\* C12 Breaking-change detection: a replay of a history recorded by
\* UserSignupWorkflowV1 with the code of UserSignupWorkflowV2Bad fails with the
\* NonDeterminismError at its first command, create_account, where the log has
\* validate_user scheduled; it never succeeds, and the replay changes neither
\* the log nor the execution.
C12_BreakingChangeDetected ==
    /\ []((wf = "signup" /\ code = "v1" /\ ReplayedWith("v2-bad")) =>
            /\ ~replay.ok
            /\ replay.commands = <<"create_account">>
            /\ log[2].type = "ActivityScheduled" /\ log[2].name = "validate_user"
            /\ LogCommands[1] # replay.commands[1])
    /\ [][(wf = "signup" /\ code = "v1" /\ ReplaysV2Bad) =>
            /\ ~replay'.ok
            /\ log' = log
            /\ code' = code /\ pc' = pc /\ result' = result /\ wfstatus' = wfstatus]_vars

\* a signup completed by V1, then replayed by V2Bad
C12_Witness ==
    /\ wf = "signup" /\ wfstatus = "Completed" /\ code = "v1" /\ ReplayedWith("v2-bad")
    /\ ~replay.ok
    /\ replay.commands = <<"create_account">>
    /\ LogCommands = <<"validate_user", "create_account", "run">>

(***************************************************************************)
(* ApprovalWorkflow                                                        *)
(***************************************************************************)
ApprovalInput(approver_name, approved, comment) ==
    [approver_name |-> approver_name, approved |-> approved, comment |-> comment]

ApprovalInputs ==
    {ApprovalInput("Alice Johnson", TRUE, "Budget approved, looks good!"),
     ApprovalInput("Bob Smith", FALSE, "Budget exceeded - request denied"),
     ApprovalInput("Alice Johnson", FALSE, ""),
     ApprovalInput("Bob Smith", TRUE, "")}

\* __init__: Optional fields are <<>> for None, <<v>> for a value;
\* start_time is read from the wall clock
Approval_init(request_id, clock) ==
    [request_id |-> request_id, approved |-> <<>>, approver_name |-> <<>>,
     comment |-> "", start_time |-> clock]

\* the approve signal handler
approve(this, input) ==
    [this EXCEPT !.approved = <<input.approved>>,
                 !.approver_name = <<input.approver_name>>,
                 !.comment = input.comment]

\* the handlers of a batch of signals, in order of arrival
RECURSIVE Deliver(_, _)
Deliver(this, batch) ==
    IF batch = <<>> THEN this ELSE Deliver(approve(this, Head(batch)), Tail(batch))

\* run after wait_condition: the string it returns
Approval_return(this, timed_out) ==
    IF timed_out
    THEN <<"Request", this.request_id, "auto-rejected after timeout">>
    ELSE IF this.approved[1]
    THEN <<"Request", this.request_id, "approved by", this.approver_name[1]>>
    ELSE <<"Request", this.request_id, "rejected by", this.approver_name[1], this.comment>>

\* the signals the log holds, in order
Signals == [k \in 1..Len(Filter("SignalReceived", {"approve"})) |->
              Filter("SignalReceived", {"approve"})[k].val]

\* handle.signal before the worker has processed the first workflow task of
\* the execution: the signal is logged and waits for that task
Approval_signal_before_start(input) ==
    /\ wf = "approval" /\ wfstatus = "Running" /\ pc = "start"
    /\ CountEvents("SignalReceived") < MaxSignals
    /\ log' = Append(log, SignalReceived("approve", input))
    /\ UNCHANGED <<wf, wfstatus, pc, result, request, act, self, code, called, replay, now,
                   sagaVars, updVars, orderVars, answer>>

\* a first workflow task that runs the handlers of the waiting signals before
\* __init__, which then resets the fields; run waits
Approval_first_task_init_last ==
    /\ wf = "approval" /\ wfstatus = "Running" /\ pc = "start"
    /\ self' = Approval_init(request, now)
    /\ pc' = "wait_condition"
    /\ log' = Append(log, TimerStarted("wait_condition"))
    /\ UNCHANGED <<wf, wfstatus, result, request, act, code, called, replay, now,
                   sagaVars, updVars, orderVars, answer>>
\* the first workflow task: @workflow.init __init__ runs, then the handlers of
\* the signals that arrived before it, then run up to wait_condition, which
\* returns at once when approved is set and else waits with its timer
Approval_first_task ==
    /\ wf = "approval" /\ wfstatus = "Running" /\ pc = "start"
    /\ self' = Deliver(Approval_init(request, now), Signals)
    /\ IF Signals # <<>>
       THEN /\ result' = Approval_return(self', FALSE)
            /\ log' = Append(log, WorkflowCompleted("returned"))
            /\ pc' = "done" /\ wfstatus' = "Completed"
       ELSE /\ pc' = "wait_condition"
            /\ log' = Append(log, TimerStarted("wait_condition"))
            /\ UNCHANGED <<result, wfstatus>>
    /\ UNCHANGED <<wf, request, act, code, called, replay, now,
                   sagaVars, updVars, orderVars, answer>>

\* the signals of one workflow task are handled, then wait_condition finds
\* self.approved set and run returns
Approval_approve(batch) ==
    /\ wf = "approval" /\ wfstatus = "Running" /\ pc = "wait_condition"
    /\ batch # <<>>
    /\ self' = Deliver(self, batch)
    /\ result' = Approval_return(self', FALSE)
    /\ log' = log \o [k \in 1..Len(batch) |-> SignalReceived("approve", batch[k])]
                  \o <<WorkflowCompleted("returned")>>
    /\ pc' = "done" /\ wfstatus' = "Completed"
    /\ UNCHANGED <<wf, request, act, code, called, replay, now,
                   sagaVars, updVars, orderVars, answer>>

\* the 7 days pass without a signal: asyncio.TimeoutError
Approval_timeout ==
    /\ wf = "approval" /\ wfstatus = "Running" /\ pc = "wait_condition"
    /\ result' = Approval_return(self, TRUE)
    /\ log' = log \o <<TimerFired("wait_condition"), WorkflowCompleted("returned")>>
    /\ pc' = "done" /\ wfstatus' = "Completed"
    /\ UNCHANGED <<wf, request, act, self, code, called, replay, now,
                   sagaVars, updVars, orderVars, answer>>

\* the wall clock of the worker's host goes on
Tick ==
    /\ wf = "approval"
    /\ now < MaxClock
    /\ now' = now + 1
    /\ UNCHANGED <<wf, wfstatus, pc, result, log, request, act, self, code, called,
                   replay, sagaVars, updVars, orderVars, answer>>

\* replay of the log on a worker whose clock shows `clock`: __init__ runs,
\* then the handlers of the logged signals, then run as far as the log goes
ReplayApproval(clock) ==
    LET this == Deliver(Approval_init(request, clock), Signals)
        timed_out == Filter("TimerFired", {"wait_condition"}) # <<>>
        returned == Filter("WorkflowCompleted", {"run"}) # <<>>
    IN  Replayed("", TRUE, <<>>,
                 IF returned THEN <<Approval_return(this, timed_out)>> ELSE <<>>,
                 IF returned THEN "done" ELSE "wait_condition",
                 this, Len(log), {})

\* a worker replays the log (after a restart, a cache eviction, or for a
\* query on a closed execution); a running execution goes on with the
\* instance the replay built
Approval_replay ==
    /\ wf = "approval" /\ pc # "start"
    /\ replay' = ReplayApproval(now)
    /\ self' = IF wfstatus = "Running" THEN replay'.loc ELSE self
    /\ UNCHANGED <<wf, wfstatus, pc, result, log, request, act, code, called, now,
                   sagaVars, updVars, orderVars, answer>>

\* start_workflow(ApprovalWorkflow.run, request_id): the execution is started,
\* no workflow task has been processed and there is no instance yet
InitApproval ==
    /\ wf = "approval" /\ wfstatus = "Running" /\ pc = "start"
    /\ request \in {"REQ-001", "REQ-002"}
    /\ now = 0
    /\ self = <<>>
    /\ result = <<>>
    /\ log = <<WorkflowStarted>>
    /\ act = NoAct /\ code = "" /\ called = {} /\ replay = NoReplay /\ answer = NoAnswer
    /\ compensations = <<>> /\ todo = <<>> /\ bookings = {}
    /\ items = <<>> /\ total = 0 /\ lock = 0 /\ waiters = <<>> /\ upd = <<>>
    /\ status = None /\ payment_transaction_id = <<>> /\ shipping_info = <<>>

NextApproval ==
    \/ \E input \in ApprovalInputs : Approval_signal_before_start(input)
    \/ Approval_first_task
    \/ \E n \in 1..MaxSignals : \E batch \in [1..n -> ApprovalInputs] : Approval_approve(batch)
    \/ Approval_timeout
    \/ Tick
    \/ Approval_replay

SpecApproval == InitApproval /\ [][NextApproval]_vars

\* C7 Determinism: two replays of the same event log by the same code build
\* the same workflow state and issue the same commands; nothing the workflow
\* holds depends on when or where the replay runs.
C7_Determinism ==
    [][(/\ replay.upto = Len(log) /\ replay'.upto = Len(log') /\ log' = log
        /\ replay'.code = replay.code)
         => /\ replay'.loc = replay.loc
            /\ replay'.commands = replay.commands]_vars

(***************************************************************************)
(* All workflows                                                           *)
(***************************************************************************)
\* C15 Approval outcome: ApprovalWorkflow completes with "approved by X" if
\* the approve signal that resolved the wait-condition, the first to make
\* approved non-None, had approved=True and came from X, with "rejected by X"
\* if it had approved=False, and with "auto-rejected after timeout" exactly
\* if the deadline timer fired before any approve signal was applied.
C15_ApprovalOutcome ==
    (wf = "approval" /\ wfstatus = "Completed") =>
      LET timed_out == Filter("TimerFired", {"wait_condition"}) # <<>>
      IN  /\ (result[3] = "auto-rejected after timeout") <=> timed_out
          /\ timed_out <=> Signals = <<>>
          /\ Signals # <<>> =>
               LET resolving == Signals[1]
               IN  IF resolving.approved
                   THEN result = <<"Request", request, "approved by",
                                   resolving.approver_name>>
                   ELSE result = <<"Request", request, "rejected by",
                                   resolving.approver_name, resolving.comment>>

\* C19 Initializer before handlers: the approve handler is only ever invoked
\* on an instance __init__ has initialised (request_id set, approved None
\* until a handler sets it), also for signals that arrived before the first
\* workflow task: that task leaves the instance as __init__ followed by the
\* handlers of these signals leave it, and no signal is lost.
C19_InitBeforeHandlers ==
    /\ []((wf = "approval" /\ pc # "start") =>
            /\ self.request_id = request
            /\ (self.approved = <<>> <=> Signals = <<>>)
            /\ (pc = "wait_condition" => self.approved = <<>> /\ self.approver_name = <<>>)
            /\ (Signals # <<>> =>
                  /\ self.approved = <<Signals[Len(Signals)].approved>>
                  /\ self.approver_name = <<Signals[Len(Signals)].approver_name>>))
    /\ [][(wf = "approval" /\ pc = "start" /\ pc' # "start") =>
            /\ self' = Deliver(Approval_init(request, self'.start_time), Signals)
            /\ (Signals # <<>> => wfstatus' = "Completed" /\ result' # <<>>)]_vars

\* an approval that arrived before the first workflow task and was applied
\* by it: run never had to wait
C19_Witness ==
    /\ wf = "approval" /\ wfstatus = "Completed"
    /\ Filter("TimerStarted", {"wait_condition"}) = <<>>
    /\ Len(Signals) = 1 /\ Signals[1].approved
    /\ self.request_id = request
    /\ self.approved = <<TRUE>>
    /\ result[3] = "approved by"

(***************************************************************************)
(* DataProcessingWorkflow of the query example                             *)
(***************************************************************************)
\* __init__
DataProcessingWorkflow_init ==
    [status |-> "initializing", items_processed |-> 0, total_items |-> 0,
     current_step |-> <<"Initialization">>, errors |-> 0, results |-> <<>>]

\* run at the head of `for i in range(total_items)`: the next item is handed
\* to process_item, or the loop is over and run sleeps for a second
DataProcessingWorkflow_for(this, i) ==
    IF i < this.total_items
    THEN [self |-> [this EXCEPT !.current_step = <<"Processing item", i + 1, this.total_items>>],
          pc |-> "process_item",
          act |-> Invocation("process_item", i, i, DefaultRetryPolicy),
          events |-> <<ActivityScheduled("process_item", i)>>]
    ELSE [self |-> [this EXCEPT !.status = "finalizing",
                                !.current_step = <<"Finalizing results">>],
          pc |-> "sleep", act |-> NoAct, events |-> <<>>]

\* a run that appends the result without counting the item
DataProcessingWorkflow_run_item_uncounted ==
    /\ wf = "processing" /\ wfstatus = "Running" /\ pc = "process_item"
    /\ act.state \in {"completed", "failed"}
    /\ LET i == act.arg
           this == IF act.state = "completed"
                   THEN [self EXCEPT !.results = Append(@, act.value)]
                   ELSE [self EXCEPT !.errors = @ + 1]
           head == DataProcessingWorkflow_for(this, i + 1)
       IN  /\ self' = head.self
           /\ pc' = head.pc
           /\ act' = head.act
           /\ log' = log \o head.events
    /\ UNCHANGED <<wf, wfstatus, result, request, code, called, replay, now,
                   sagaVars, updVars, orderVars, answer>>
\* run resumes from process_item: the try body goes on, or the except branch
DataProcessingWorkflow_run_item ==
    /\ wf = "processing" /\ wfstatus = "Running" /\ pc = "process_item"
    /\ act.state \in {"completed", "failed"}
    /\ LET i == act.arg
           this == IF act.state = "completed"
                   THEN [self EXCEPT !.results = Append(@, act.value),
                                     !.items_processed = i + 1]
                   ELSE [self EXCEPT !.errors = @ + 1]
           head == DataProcessingWorkflow_for(this, i + 1)
       IN  /\ self' = head.self
           /\ pc' = head.pc
           /\ act' = head.act
           /\ log' = log \o head.events
    /\ UNCHANGED <<wf, wfstatus, result, request, code, called, replay, now,
                   sagaVars, updVars, orderVars, answer>>

\* the value run returns
DataProcessingWorkflow_result(this) ==
    <<"Processed", this.items_processed, "items with", this.errors, "errors">>

\* a run that returns without the assignments that follow the sleep
DataProcessingWorkflow_run_return_finalizing ==
    /\ wf = "processing" /\ wfstatus = "Running" /\ pc = "sleep"
    /\ result' = DataProcessingWorkflow_result(self)
    /\ pc' = "done"
    /\ wfstatus' = "Completed"
    /\ log' = log \o <<TimerFired("sleep"), WorkflowCompleted("returned")>>
    /\ UNCHANGED <<wf, self, request, act, code, called, replay, now,
                   sagaVars, updVars, orderVars, answer>>
\* run after asyncio.sleep(timedelta(seconds=1)), taken as the timer of one
\* second it stands for: the status becomes COMPLETED and run returns
DataProcessingWorkflow_run_return ==
    /\ wf = "processing" /\ wfstatus = "Running" /\ pc = "sleep"
    /\ self' = [self EXCEPT !.status = "completed", !.current_step = <<"Completed">>]
    /\ result' = DataProcessingWorkflow_result(self')
    /\ pc' = "done"
    /\ wfstatus' = "Completed"
    /\ log' = log \o <<TimerFired("sleep"), WorkflowCompleted("returned")>>
    /\ UNCHANGED <<wf, request, act, code, called, replay, now,
                   sagaVars, updVars, orderVars, answer>>

\* start_workflow(DataProcessingWorkflow.run, total_items): the first workflow
\* task has run to the first await
InitProcessing ==
    /\ wf = "processing" /\ wfstatus = "Running" /\ result = <<>>
    /\ request \in 0..MaxTotalItems
    /\ LET head == DataProcessingWorkflow_for(
                       [DataProcessingWorkflow_init EXCEPT !.total_items = request,
                                                           !.status = "processing"], 0)
       IN  /\ self = head.self /\ pc = head.pc /\ act = head.act
           /\ log = <<WorkflowStarted>> \o head.events
    /\ code = "" /\ called = {} /\ replay = NoReplay /\ now = 0 /\ answer = NoAnswer
    /\ compensations = <<>> /\ todo = <<>> /\ bookings = {}
    /\ items = <<>> /\ total = 0 /\ lock = 0 /\ waiters = <<>> /\ upd = <<>>
    /\ status = None /\ payment_transaction_id = <<>> /\ shipping_info = <<>>

NextProcessing ==
    \/ ActivityAttempt
    \/ DataProcessingWorkflow_run_item
    \/ DataProcessingWorkflow_run_return

(***************************************************************************)
(* Queries                                                                 *)
(***************************************************************************)
\* ProcessingProgress; percent_complete is kept as the fraction it is
DataProcessingWorkflow_get_progress ==
    [status |-> self.status,
     items_processed |-> self.items_processed,
     total_items |-> self.total_items,
     current_step |-> self.current_step,
     errors |-> self.errors,
     percent_complete |-> IF self.total_items > 0
                          THEN <<self.items_processed * 100, self.total_items>>
                          ELSE <<0, 1>>]
DataProcessingWorkflow_get_status == self.status
DataProcessingWorkflow_get_items_remaining == self.total_items - self.items_processed
DataProcessingWorkflow_get_results == self.results

Queried == {"processing", "order", "cart"}

\* the query handlers each workflow defines
Queries(w) ==
    CASE w = "processing" -> {"get_status", "get_progress", "get_items_remaining", "get_results"}
      [] w = "order" -> {"get_status", "get_total", "get_progress"}
      [] w = "cart" -> {"get_total", "get_item_count"}

\* the handler runs on the workflow instance and returns
Handle(name) ==
    CASE wf = "processing" /\ name = "get_status" -> DataProcessingWorkflow_get_status
      [] wf = "processing" /\ name = "get_progress" -> DataProcessingWorkflow_get_progress
      [] wf = "processing" /\ name = "get_items_remaining" ->
            DataProcessingWorkflow_get_items_remaining
      [] wf = "processing" /\ name = "get_results" -> DataProcessingWorkflow_get_results
      [] wf = "order" /\ name = "get_status" -> get_status
      [] wf = "order" /\ name = "get_progress" -> get_progress
      [] wf \in {"order", "cart"} /\ name = "get_total" -> get_total
      [] wf = "cart" /\ name = "get_item_count" -> get_item_count

\* queries are permitted against running and completed executions
Queryable == wfstatus \in {"Running", "Completed"}

\* a router that records the query in the event log
Query_logged(name) ==
    /\ wf \in Queried /\ name \in Queries(wf)
    /\ answer.query = ""
    /\ answer' = Answer(name, Handle(name))
    /\ log' = Append(log, Event("QueryReceived", name, 0, ""))
    /\ UNCHANGED <<wf, wfstatus, pc, result, request, act, self, code, called, replay,
                   now, sagaVars, updVars, orderVars>>
\* handle.query(name): the router runs the handler of a running or completed
\* execution on its state and delivers what the handler returned
Query(name) ==
    /\ wf \in Queried /\ name \in Queries(wf)
    /\ answer.query = ""
    /\ answer' = IF Queryable
                 THEN Answer(name, Handle(name))
                 ELSE QueryRejected(name)
    /\ UNCHANGED <<wf, wfstatus, pc, result, log, request, act, self, code, called, replay,
                   now, sagaVars, updVars, orderVars>>

\* the caller has the answer
Query_return ==
    /\ answer.query # ""
    /\ answer' = NoAnswer
    /\ UNCHANGED <<wf, wfstatus, pc, result, log, request, act, self, code, called, replay,
                   now, sagaVars, updVars, orderVars>>

QueryNames == {"get_status", "get_total", "get_progress", "get_item_count",
               "get_items_remaining", "get_results"}

\* the signals and updates each workflow defines
Requests(w) ==
    CASE w = "order" -> {"add_item", "process_payment", "mark_shipped", "cancel_order"}
      [] w = "cart" -> {"add_item", "remove_item"}
      [] OTHER -> {}

\* a signal or an update sent to an execution that has left Running: the
\* router refuses it, no handler runs and no event is written
Refused(name) ==
    /\ wf \in Queried /\ name \in Requests(wf)
    /\ wfstatus # "Running"
    /\ answer.query = ""
    /\ answer' = QueryRejected(name)
    /\ UNCHANGED <<wf, wfstatus, pc, result, log, request, act, self, code, called, replay,
                   now, sagaVars, updVars, orderVars>>

RequestNames == {"add_item", "remove_item", "process_payment", "mark_shipped", "cancel_order"}

\* The workflows, with callers that query them.  handle.query is a
\* synchronous call: the time the answer takes to reach the caller is not
\* modelled, the caller has it before the next event of the execution.
InitQueries == InitProcessing \/ InitUpdates
NextQueries ==
    \/ answer.query = "" /\ NextProcessing
    \/ answer.query = "" /\ NextUpdates
    \/ \E name \in QueryNames : Query(name)
    \/ Query_return

SpecQueries == InitQueries /\ [][NextQueries]_vars

\* The workflows, with callers that send their queries, signals and updates
\* to executions that have closed.
NextClosed ==
    \/ answer.query = "" /\ NextProcessing
    \/ answer.query = "" /\ NextUpdates
    \/ \E name \in QueryNames : wfstatus # "Running" /\ Query(name)
    \/ \E name \in RequestNames : Refused(name)
    \/ Query_return

SpecClosed == InitQueries /\ [][NextClosed]_vars

\* a query is answered in this step
Queried_step == answer.query = "" /\ answer'.query \in QueryNames

\* C13 Queries are read-only: a step in which a query handler (get_status,
\* get_total, get_progress, get_item_count, get_items_remaining, get_results)
\* runs appends nothing to the event log, emits no command and leaves every
\* field of the workflow as it was; the caller gets what the handler returned.
C13_QueriesReadOnly ==
    [][Queried_step =>
         /\ log' = log
         /\ act' = act
         /\ self' = self
         /\ items' = items /\ total' = total /\ status' = status
         /\ payment_transaction_id' = payment_transaction_id
         /\ shipping_info' = shipping_info
         /\ lock' = lock /\ waiters' = waiters /\ upd' = upd
         /\ pc' = pc /\ result' = result /\ wfstatus' = wfstatus
         /\ ~answer'.rejected
         /\ answer'.query \in Queries(wf)]_vars

\* get_progress answered while the second item is being processed
C13_Witness ==
    /\ wf = "processing" /\ wfstatus = "Running"
    /\ answer.query = "get_progress" /\ ~answer.rejected
    /\ answer.value.status = "processing"
    /\ answer.value.items_processed = 1
    /\ answer.value.percent_complete = <<100, 2>>
    /\ Len(log) > 2

\* the results of process_item the log records
LoggedResults ==
    LET done == SelectSeq(log, LAMBDA e : e.type = "ActivityCompleted"
                                          /\ e.name = "process_item")
    IN  [k \in 1..Len(done) |-> done[k].val]

C20_AppendOnlyLog ==
    [][/\ Len(log') >= Len(log)
       /\ \A j \in 1..Len(log) : /\ log'[j].type = log[j].type
                                  /\ log'[j].name = log[j].name
                                  /\ log'[j].id = log[j].id
       /\ SubSeq(log', 1, Len(log)) = log]_vars

\* a signup whose log has grown to its end, one event behind the other
C20_Witness ==
    /\ wf = "signup" /\ wfstatus = "Completed"
    /\ replay.upto = Len(log) /\ replay.ok
    /\ Len(log) >= 8
    /\ log[1].type = "WorkflowStarted"
    /\ log[Len(log)].type = "WorkflowCompleted"
    /\ \A j \in 2..(Len(log) - 1) : log[j].type \notin {"WorkflowStarted", "WorkflowCompleted"}

\* C21 Terminal status is final: once the status of an execution has left
\* Running, no step changes the status, the result, the event log or any
\* field of the workflow again; a signal or an update that arrives then is
\* refused and changes nothing, and the only requests answered are queries.
C21_TerminalFinal ==
    [][wfstatus # "Running" =>
          /\ wfstatus' = wfstatus
          /\ UNCHANGED <<wf, pc, result, log, request, act, self, code, called,
                         sagaVars, updVars, orderVars>>
          /\ answer'.query # "" /\ answer.query = "" =>
                (answer'.rejected <=> answer'.query \notin Queries(wf))]_vars

\* an order closed by the payment timeout has refused a cancel_order and an
\* add_item, and still answers get_status
C21_Witness ==
    /\ wf = "order" /\ wfstatus = "Completed" /\ status = "CANCELLED"
    /\ answer.query = "add_item" /\ answer.rejected
    /\ log[Len(log)].type = "WorkflowCompleted"

\* the events that schedule charge_payment
Charges(l) == {j \in 1..Len(l) : l[j].type = "ActivityScheduled" /\ l[j].name = "charge_payment"}

\* C22 Payment only when pending: in OrderWorkflow charge_payment is scheduled
\* at most once per order, and the status is PENDING when it is scheduled,
\* under any interleaving of concurrent process_payment updates.
C22_PaymentOnlyWhenPending ==
    /\ [](wf = "order" => Cardinality(Charges(log)) <= 1)
    /\ [][wf = "order" /\ Charges(log') # Charges(log) => status' = "PENDING"]_vars

\* C23 Items only when pending: in OrderWorkflow items and total are modified
\* only while status is PENDING, so in every state where
\* payment_transaction_id is set the order total is the amount that was
\* passed to charge_payment, under any interleaving of add_item and
\* process_payment updates.
C23_ItemsOnlyWhenPending ==
    /\ [][wf = "order" /\ (items' # items \/ total' # total) => status = "PENDING"]_vars
    /\ [](wf = "order" /\ payment_transaction_id # <<>> =>
            \A u \in 1..Len(upd) :
                upd[u].kind = "process_payment" /\ upd[u].pc = "completed"
                    => upd[u].arg.amount = total)

\* the status changes OrderWorkflow is meant to make
OrderTransitions ==
    {<<"PENDING", "PAID">>, <<"PAID", "SHIPPED">>, <<"SHIPPED", "DELIVERED">>,
     <<"PENDING", "CANCELLED">>, <<"PAID", "CANCELLED">>}

\* C24 Order status transitions: the status of an order changes only along
\* PENDING -> PAID -> SHIPPED -> DELIVERED or from PENDING or PAID to
\* CANCELLED; CANCELLED and DELIVERED are never left, and an order that is
\* cancelled has no charge_payment scheduled and no transaction id set
\* afterwards, also when cancel_order arrives while process_payment is
\* suspended on charge_payment.
C24_StatusTransitions ==
    [][wf = "order" =>
          /\ status' # status => <<status, status'>> \in OrderTransitions
          /\ status = "CANCELLED" =>
                /\ Charges(log') = Charges(log)
                /\ payment_transaction_id' = payment_transaction_id]_vars

\* C25 No duplicate SKUs: in every reachable state of ShoppingCartWorkflow
\* no two items of the cart have the same SKU, for any sequence and
\* interleaving of add_item and remove_item updates.
C25_NoDuplicateSkus ==
    wf = "cart" => \A i, j \in 1..Len(items) : items[i].sku = items[j].sku => i = j

\* C26 Size limits: in every reachable state the cart holds at most 50 items
\* and the order at most 20, under any number of concurrently accepted
\* add_item updates.
C26_SizeLimits ==
    /\ wf = "cart" => Len(items) <= CartMaxItems
    /\ wf = "order" => Len(items) <= OrderMaxItems

\* C27 Accepted updates complete before the workflow does: no cart or order
\* execution has left Running while an accepted update handler is suspended
\* on its activity or waits for the lock, and in the log of a closed
\* execution every UpdateAccepted has its UpdateCompleted (with the result
\* or the failure) before WorkflowCompleted.
C27_UpdatesCompleteFirst ==
    (wf \in {"cart", "order"} /\ wfstatus # "Running") =>
        /\ \A u \in 1..Len(upd) : upd[u].pc \notin {"activity", "waitlock"}
        /\ \A j \in 1..Len(log) :
              log[j].type = "UpdateAccepted" =>
                  \E k \in At("UpdateCompleted", log[j].id) :
                      j < k /\ \A e \in k..Len(log) : log[e].type = "WorkflowCompleted" => k < e

\* C28 Cart total invariant: in every state of a cart (each is a suspension
\* point, and a state a query can be answered in) total is the sum of
\* price * quantity over the items now in the cart and is not negative, after
\* any sequence of successful, failed and rejected add_item and remove_item
\* updates.
C28_CartTotal ==
    wf = "cart" => total = SumItems(items) /\ total >= 0

\* a cart with items in which an add_item of two units completed, an add_item
\* failed on check_inventory and a remove_item completed
C28_Witness ==
    /\ wf = "cart" /\ wfstatus = "Running" /\ total > 0
    /\ \E u \in 1..Len(upd) : /\ upd[u].kind = "add_item" /\ upd[u].pc = "completed"
                               /\ upd[u].arg.quantity = 2
    /\ \E u \in 1..Len(upd) : upd[u].kind = "add_item" /\ upd[u].pc = "failed"
    /\ \E u \in 1..Len(upd) : upd[u].kind = "remove_item" /\ upd[u].pc = "completed"

\* an accepted add_item fails in this step on what check_inventory returned
FailsOnInventory(u) ==
    /\ u <= Len(upd) /\ upd[u].kind = "add_item"
    /\ upd[u].pc = "activity" /\ upd'[u].pc = "failed"

\* the failing handler leaves items and total as they are and gives up the
\* lock, and the lock is only ever held by a handler suspended inside it
C29_FailureReleases ==
    /\ [][\A u \in 1..MaxCartUpdates :
            wf = "cart" /\ FailsOnInventory(u) =>
                /\ items' = items /\ total' = total
                /\ lock = u /\ lock' # u
                /\ lock' = IF waiters = <<>> THEN 0 ELSE Head(waiters)]_vars
    /\ [](wf = "cart" /\ lock # 0 => upd[lock].pc = "activity")

TakesLock ==
    {u \in 1..Len(upd') :
        /\ upd'[u].kind = "process_payment"
        /\ upd'[u].pc \in {"activity", "failed"}
        /\ (u > Len(upd) \/ upd[u].pc = "waitlock")}

\* C30 Payment amount mismatch: an accepted process_payment whose amount is
\* not the order total when its handler has the lock fails, schedules no
\* charge_payment and leaves status, payment_transaction_id, items and total
\* as they are (as the handler that handed it the lock left them); a handler
\* whose amount is the total goes on to charge_payment.
C30_AmountMismatch ==
    [][wf = "order" =>
        \A u \in TakesLock :
           /\ upd'[u].pc = "failed" <=> upd'[u].arg.amount # total'
           /\ upd'[u].pc = "failed" =>
                /\ At("ActivityScheduled", u)' = {}
                /\ lock' # u
                /\ IF u > Len(upd)
                   THEN UNCHANGED <<status, payment_transaction_id, items, total>>
                   ELSE /\ upd[lock].kind = "add_item" =>
                             UNCHANGED <<status, payment_transaction_id>>
                        /\ upd[lock].kind = "process_payment" =>
                             /\ UNCHANGED <<items, total>>
                             /\ upd'[lock].out = <<payment_transaction_id'>>]_vars

\* a process_payment of the total at the time waited behind an add_item,
\* failed against the new total, and the order is still pending and unpaid
C30_Witness ==
    /\ wf = "order" /\ status = "PENDING" /\ payment_transaction_id = <<>>
    /\ Charges(log) = {}
    /\ \E u \in 1..Len(upd) :
          /\ upd[u].kind = "process_payment" /\ upd[u].pc = "failed"
          /\ upd[u].arg.amount \notin {100, total}
          /\ total = upd[u].arg.amount + 129999

\* the signal `name` is applied in this step
SignalStep(name) ==
    /\ Len(log') = Len(log) + 1
    /\ log'[Len(log')].type = "SignalReceived" /\ log'[Len(log')].name = name

\* C31 Guarded signals: a mark_shipped applied when status is not PAID and a
\* cancel_order applied when status is SHIPPED or DELIVERED are recorded in
\* the log but leave status and shipping_info unchanged, send nothing back
\* to the sender and do not fail or close the workflow; mark_shipped in
\* status PAID sets status SHIPPED and shipping_info in one step.
C31_GuardedSignals ==
    [][wf = "order" =>
        /\ ((SignalStep("mark_shipped") /\ status # "PAID")
              \/ (SignalStep("cancel_order") /\ status \in {"SHIPPED", "DELIVERED"}))
             => UNCHANGED <<status, shipping_info, wfstatus, result, pc, answer, updVars,
                            payment_transaction_id>>
        /\ (SignalStep("mark_shipped") /\ status = "PAID")
             => /\ status' = "SHIPPED"
                /\ shipping_info' = <<log'[Len(log')].val>>
                /\ UNCHANGED <<wfstatus, result, answer>>]_vars

\* an order shipped by mark_shipped, on which a later cancel_order was
\* recorded and ignored
C31_Witness ==
    /\ wf = "order" /\ wfstatus = "Running"
    /\ status = "SHIPPED" /\ shipping_info = <<"UPS">>
    /\ log[Len(log)] = SignalReceived("cancel_order", "customer request")
    /\ \E j \in 1..Len(log) : log[j] = SignalReceived("mark_shipped", "UPS")

\* the timer `name` fires in this step
TimerStep(name) ==
    \E j \in (Len(log) + 1)..Len(log') : log'[j] = TimerFired(name)

\* the positions of the event `e` in the log
Where(e) == {j \in 1..Len(log) : log[j] = e}

C33_SagaSuccess ==
    (wf = "saga" /\ Len(booked) = 3) =>
        /\ undone = <<>> /\ forwardFailed = <<>>
        /\ wfstatus # "Failed"
        /\ (wfstatus = "Completed" =>
              /\ result.success = TRUE /\ result.error = <<>>
              /\ result.car_booking = <<"car_booking">> \o request.car_id
              /\ result.hotel_booking = <<"hotel_booking">> \o request.hotel_id
              /\ result.flight_booking = <<"flight_booking">> \o request.flight_id
              /\ booked[1].name = "book_car" /\ booked[2].name = "book_hotel"
              /\ booked[3].name = "book_flight")

\* a trip booked with success although an attempt of book_hotel was lost to
\* the timeout and retried
C33_Witness ==
    /\ wf = "saga" /\ wfstatus = "Completed" /\ result.success = TRUE
    /\ Len(booked) = 3
    /\ Len(Attempts("book_hotel", 2)) = 2
    /\ Attempts("book_hotel", 2)[1].val = "TimeoutError"

\* run_saga_example, test 2: booking or 'N/A (rolled back)'
Report(booking, note) == IF booking # <<>> THEN booking ELSE <<"N/A", note>>

\* the field of BookingResult a step or its compensation is about
BookingField(name) ==
    CASE name \in {"book_car", "undo_book_car"} -> "car_booking"
      [] name \in {"book_hotel", "undo_book_hotel"} -> "hotel_booking"
      [] name \in {"book_flight", "undo_book_flight"} -> "flight_booking"

\* C34 Saga failure result: when TripBookingSaga has failed at a step and
\* returned, the BookingResult has success false and the error set, the
\* booking of the failed step is absent, and every booking that a
\* compensation rolled back is reported as N/A, not as still booked.
C34_SagaFailureResult ==
    (wf = "saga" /\ wfstatus = "Completed" /\ forwardFailed # <<>>) =>
        /\ result.success = FALSE /\ result.error # <<>>
        /\ result[BookingField(forwardFailed[1].name)] = <<>>
        /\ \A j \in 1..Len(log) :
              (log[j].type = "ActivityCompleted" /\ log[j].name \in Undos) =>
                  Report(result[BookingField(log[j].name)], "rolled back")
                      = <<"N/A", "rolled back">>

\* C35 No leaked booking: with activities executed at least once, where an
\* attempt can make its booking and still be reported to the workflow as
\* timed out, whenever TripBookingSaga has returned without success and none
\* of the compensations it scheduled failed, no booking made by a forward
\* attempt is left in the booking systems.
C35_NoLeakedBooking ==
    (wf = "saga" /\ wfstatus = "Completed" /\ result.success = FALSE
        /\ undoFailed = <<>>) => bookings = {}

\* an attempt of the awaited activity ends in this step
AttemptStep ==
    /\ act.state = "running" /\ Len(log') > Len(log)
    /\ log'[Len(log) + 1].type = "ActivityAttempt"

C37_ProgressCounters ==
    /\ [](wf = "processing" =>
            /\ self.items_processed = Len(self.results)
            /\ Len(self.results) <= Len(LoggedResults)
            /\ self.results = SubSeq(LoggedResults, 1, Len(self.results))
            /\ 0 <= self.items_processed
            /\ self.items_processed <= self.total_items
            /\ DataProcessingWorkflow_get_items_remaining >= 0
            /\ (wfstatus = "Completed" =>
                    self.items_processed + self.errors = self.total_items))
    /\ [][wf = "processing" =>
            DataProcessingWorkflow_get_items_remaining' <=
                DataProcessingWorkflow_get_items_remaining]_vars
\* run has returned after every item was processed, one of them on a retry
C37_Witness ==
    /\ wf = "processing" /\ wfstatus = "Completed"
    /\ self.total_items = MaxTotalItems
    /\ self.items_processed = MaxTotalItems
    /\ \E k \in 1..Len(log) : /\ log[k].type = "ActivityAttempt"
                               /\ log[k].name = "process_item"
                               /\ log[k].val = "TimeoutError"

\* the activities the log records as scheduled, in order
Scheduled ==
    LET sched == SelectSeq(log, LAMBDA e : e.type = "ActivityScheduled")
    IN  [k \in 1..Len(sched) |-> sched[k].name]
\* what check_fraud reported, as the log records it
FraudReports ==
    {log[k].val : k \in {j \in 1..Len(log) : /\ log[j].type = "ActivityCompleted"
                                              /\ log[j].name = "check_fraud"}}
IsPrefix(s, t) == Len(s) <= Len(t) /\ s = SubSeq(t, 1, Len(s))

\* C38 Fraud rejection stops the order: in OrderWorkflowVersioned the first
\* command is always process_payment.  Once check_fraud has reported the
\* order as unsafe, send_notification and send_confirmation are never
\* scheduled and run returns status FRAUD_REJECTED.  On a fresh execution of
\* the code of the source check_fraud is scheduled second, and if it reports
\* safe, send_notification and then send_confirmation follow and the result
\* has version v3, fraud_checked, notification_sent and status COMPLETED.
C38_FraudRejectionStops ==
    wf = "versioned" =>
        /\ Scheduled # <<>> /\ Scheduled[1] = "process_payment"
        /\ (\E r \in FraudReports : ~r.is_safe) =>
              /\ IsPrefix(Scheduled, <<"process_payment", "check_fraud">>)
              /\ wfstatus = "Completed" => result.status = "FRAUD_REJECTED"
        /\ (code = "v3" /\ replay = NoReplay) =>
              /\ IsPrefix(Scheduled, <<"process_payment", "check_fraud",
                                       "send_notification", "send_confirmation">>)
              /\ (wfstatus = "Completed" /\ \E r \in FraudReports : r.is_safe) =>
                    /\ Len(Scheduled) = 4
                    /\ result.version = "v3" /\ result.fraud_checked
                    /\ result.notification_sent /\ result.status = "COMPLETED"
\* the large order of run_patching_example has been rejected
C38_Witness ==
    /\ wf = "versioned" /\ code = "v3" /\ replay = NoReplay
    /\ request.amount = 5000
    /\ wfstatus = "Completed" /\ result.status = "FRAUD_REJECTED"
    /\ Scheduled = <<"process_payment", "check_fraud">>

(***************************************************************************)
(* Replay of the waits of OrderWorkflow and ApprovalWorkflow               *)
(***************************************************************************)
\* OrderWorkflow as a replay rebuilds it: where run is, the fields the
\* signal handlers and run assign, what run returned, and whether every
\* command of run matched the log
OrderReplayed(at, st, shipping, returned, ok) ==
    [at |-> at, status |-> st, shipping_info |-> shipping, result |-> returned, ok |-> ok]

\* one event of the log applied to the replayed instance: the handler of a
\* signal runs, process_payment resumes from charge_payment, or run resumes
\* from a timer or from send_confirmation; after each, the predicate of the
\* wait_condition run is in is evaluated again
ApplyOrder(r, e) ==
    CASE e.type = "SignalReceived" /\ e.name = "mark_shipped" ->
           IF r.status # "PAID" THEN r
           ELSE [r EXCEPT !.shipping_info = <<e.val>>, !.status = "SHIPPED",
                          !.at = RunAfter(r.at, "SHIPPED")]
      [] e.type = "SignalReceived" /\ e.name = "cancel_order" ->
           IF r.status \in {"SHIPPED", "DELIVERED"} THEN r
           ELSE [r EXCEPT !.status = "CANCELLED"]
      [] e.type = "ActivityCompleted" /\ e.name = "charge_payment" ->
           [r EXCEPT !.status = "PAID", !.at = RunAfter(r.at, "PAID")]
      [] e.type = "TimerFired" ->
           IF e.name # r.at THEN [r EXCEPT !.ok = FALSE]
           ELSE IF e.name = "wait_payment"
           THEN [r EXCEPT !.status = "CANCELLED", !.at = "done",
                          !.result = <<"cancelled - payment timeout">>]
           ELSE IF e.name = "wait_shipment"
           THEN [r EXCEPT !.at = "done", !.result = <<"paid but not shipped">>]
           ELSE [r EXCEPT !.status = "DELIVERED", !.at = "confirm"]
      [] e.type = "ActivityScheduled" /\ e.name = "send_confirmation" ->
           IF r.at = "confirm" THEN r ELSE [r EXCEPT !.ok = FALSE]
      [] e.type = "ActivityCompleted" /\ e.name = "send_confirmation" ->
           IF r.at = "confirm"
           THEN [r EXCEPT !.at = "done", !.result = <<"completed">>]
           ELSE [r EXCEPT !.ok = FALSE]
      [] e.type = "WorkflowCompleted" ->
           IF r.at = "done" THEN r ELSE [r EXCEPT !.ok = FALSE]
      [] OTHER -> r

\* the log replayed from its first event up to event n
RECURSIVE ReplayOrder(_)
ReplayOrder(n) ==
    IF n <= 1
    THEN OrderReplayed("wait_payment", "PENDING", <<>>, <<>>, TRUE)
    ELSE LET r == ReplayOrder(n - 1)
         IN  IF r.ok THEN ApplyOrder(r, log[n]) ELSE r

NextWaits == NextOrder \/ NextApproval
SpecWaits == (InitOrder \/ InitApproval) /\ [][NextWaits]_vars

\* the deadline timers of wait that the log records as fired
Fired(wait) == Filter("TimerFired", {wait})

\* C39 Wait-condition branch is replayable: for the payment and shipment
\* waits of OrderWorkflow and the approval wait of ApprovalWorkflow the log
\* records a TimerFired event exactly when the wait ended by its deadline,
\* and a replay of the log, event by event, takes the same branch as the
\* execution did: it stops where run is, with the same status and shipping
\* information, and returns what run returned (for a completed order up to
\* the total, which the update handlers compute).
C39_WaitBranchReplayable ==
    /\ wf = "order" =>
          LET r == ReplayOrder(Len(log))
          IN  /\ r.ok
              /\ r.at = pc /\ r.status = status /\ r.shipping_info = shipping_info
              /\ wfstatus = "Completed" => r.result = <<result[1]>>
              /\ wfstatus = "Running" => r.result = <<>>
              /\ Len(Fired("wait_payment")) =
                    (IF result = <<"cancelled - payment timeout">> THEN 1 ELSE 0)
              /\ Len(Fired("wait_shipment")) =
                    (IF result = <<"paid but not shipped">> THEN 1 ELSE 0)
    /\ (wf = "approval" /\ pc # "start") =>
          LET r == ReplayApproval(now)
          IN  /\ r.at = pc
              /\ wfstatus = "Completed" => r.commands = <<result>>
              /\ wfstatus = "Running" => r.commands = <<>>
              /\ Len(Fired("wait_condition")) =
                    (IF wfstatus = "Completed" /\ result[3] = "auto-rejected after timeout"
                     THEN 1 ELSE 0)
\* an order paid and then cancelled has run into the shipment deadline, with
\* a mark_shipped signal that was ignored right before it
C39_Witness ==
    /\ wf = "order" /\ wfstatus = "Completed"
    /\ result = <<"paid but not shipped">>
    /\ status = "CANCELLED"
    /\ Len(log) > 3
    /\ log[Len(log) - 2] = SignalReceived("mark_shipped", "UPS")
    /\ log[Len(log) - 1] = TimerFired("wait_shipment")

Init == InitUpdates \/ InitSaga \/ InitRetry \/ InitVersioning \/ InitApproval \/ InitProcessing
Next == NextQueries \/ NextSaga \/ NextRetry \/ NextVersioning \/ NextApproval
Spec == Init /\ [][Next]_vars

====
